---- MODULE Spec2Model ----
(***************************************************************************)
(* A model of the FSBO scraper: the SQLite listing store and session log   *)
(* (storage/database.py), the retry wrapper (utils/rate_limiter.py), the   *)
(* scraping workflow (scrapers/*.py) and the scrape command (main.py).     *)
(*                                                                         *)
(* Python strings whose characters matter (address fields, fingerprints)   *)
(* are sequences of one-character strings; opaque strings (URLs, source    *)
(* names, status words) are TLA+ strings.                                  *)
(***************************************************************************)
EXTENDS Integers, Sequences, FiniteSets, TLC

VARIABLES
    listings,        \* rows of table listings, in rowid order
    listing_seq,     \* AUTOINCREMENT counter of table listings
    scrape_history,  \* rows of table scrape_history, in rowid order
    history_seq,     \* AUTOINCREMENT counter of table scrape_history
    now,             \* CURRENT_TIMESTAMP, in whole seconds
    call,            \* the most recent call of the store's API and its result
    rt,              \* the activation of the retry wrapper (one at a time)
    run,             \* the scrape command's run of one source
    par,             \* source runs inserting into the shared store in parallel
    rl,              \* a RateLimiter and the wait() in progress on it
    th,              \* a RequestThrottler
    pg,              \* a paginated discovery of FSBOComScraper
    bulk             \* the bulk_add_listings call in progress on the store

storeVars == <<listings, listing_seq, scrape_history, history_seq, now>>
vars == <<listings, listing_seq, scrape_history, history_seq, now, call, rt, run, par, rl, th, pg, bulk>>

----------------------------------------------------------------------------
(* Bounds of the model.                                                    *)

MaxBatch == 3        \* longest batch handed to bulk_add_listings
MaxListingSeq == 2   \* listing ids handed out before the model stops inserting
MaxRetriesCfg == 3   \* largest max_retries a RetryConfig of the model is given
MaxTargets == 2      \* most targets a configurable discovery returns
NumWorkers == 2      \* source runs that insert in parallel
MaxTime == 1         \* seconds the clock of the store advances
MaxSessions == 2     \* session ids handed out before the model stops recording
MaxDelay == 2        \* largest min_delay and max_delay of a RateLimiter, in seconds
MaxClock == 4        \* seconds the clock advances after a RateLimiter is created
MaxWaits == 2        \* wait() calls on a RateLimiter
MaxCap == 2          \* largest max_requests_per_minute of a RequestThrottler
MaxRequests == 2     \* record_request calls on a RequestThrottler
MaxWanted == 22      \* largest max_listings_from_url of a paginated discovery
MaxLinks == 2        \* most listing links on one results page
MaxThTicks == 2      \* times the clock advances after a RequestThrottler is created
MaxParTime == 5      \* seconds the clock advances while runs insert in parallel
MaxScrapeUrls == 2   \* most scrape_url / search query entries a discovery goes through

----------------------------------------------------------------------------
(* Characters and strings.                                                 *)

LowerAlpha == <<"a", "b", "c", "d", "e", "f", "g", "h", "i", "j", "k", "l", "m",
                "n", "o", "p", "q", "r", "s", "t", "u", "v", "w", "x", "y", "z">>
UpperAlpha == <<"A", "B", "C", "D", "E", "F", "G", "H", "I", "J", "K", "L", "M",
                "N", "O", "P", "Q", "R", "S", "T", "U", "V", "W", "X", "Y", "Z">>

Digits == <<"0", "1", "2", "3", "4", "5", "6", "7", "8", "9">>
\* The other characters the inputs of the model use
Others == <<" ", "-", "#", ",", ".", "_">>

Range(s) == {s[i] : i \in 1..Len(s)}
Chars == Range(LowerAlpha) \cup Range(UpperAlpha) \cup Range(Digits) \cup Range(Others)

IsLowerCh(c) == c \in Range(LowerAlpha)
IsUpperCh(c) == c \in Range(UpperAlpha)

\* str.lower() on one character
LowerCh(c) == IF IsUpperCh(c)
              THEN LowerAlpha[CHOOSE i \in 1..26 : UpperAlpha[i] = c]
              ELSE c

LowerOf == [c \in Chars |-> LowerCh(c)]

\* str.lower()
lower(s) == [i \in 1..Len(s) |-> LowerOf[s[i]]]

\* Python's None where an integer id is expected (ids start at 1)
None == 0
\* Python's None / SQL NULL in a TEXT column
NULL == "NULL"

----------------------------------------------------------------------------
(* The address normalizer (utils/address_normalizer.py).                   *)

IsDigitCh(c) == c \in Range(Digits)
IsSpaceCh(c) == c = " "
\* A cased character (a letter)
IsCasedCh(c) == IsLowerCh(c) \/ IsUpperCh(c)
\* \w of the re module
IsWordCh(c) == IsCasedCh(c) \/ IsDigitCh(c) \/ c = "_"

UpperCh(c) == IF IsLowerCh(c)
              THEN UpperAlpha[CHOOSE i \in 1..26 : LowerAlpha[i] = c]
              ELSE c
UpperOf == [c \in Chars |-> UpperCh(c)]

\* str.upper()
upper(s) == [i \in 1..Len(s) |-> UpperOf[s[i]]]

\* str.isupper(): at least one cased character and no lowercase one
isupper(s) == /\ \E i \in 1..Len(s) : IsCasedCh(s[i])
              /\ \A i \in 1..Len(s) : ~IsLowerCh(s[i])

\* str.title(): a cased character is uppercased when the character before
\* it is not cased (or there is none) and lowercased otherwise
title(s) == [i \in 1..Len(s) |->
                IF ~IsCasedCh(s[i]) THEN s[i]
                ELSE IF i > 1 /\ IsCasedCh(s[i - 1]) THEN LowerOf[s[i]]
                ELSE UpperOf[s[i]]]

\* str.strip()
RECURSIVE lstrip(_)
lstrip(s) == IF s # <<>> /\ IsSpaceCh(Head(s)) THEN lstrip(Tail(s)) ELSE s
RECURSIVE rstrip(_)
rstrip(s) == IF s # <<>> /\ IsSpaceCh(s[Len(s)])
             THEN rstrip(SubSeq(s, 1, Len(s) - 1)) ELSE s
strip(s) == rstrip(lstrip(s))

\* The maximal runs of s of characters that satisfy / do not satisfy a
\* character class, in order: each [inside |-> BOOLEAN, text |-> run]
RECURSIVE RunsFrom(_, _, _, _)
RunsFrom(s, i, acc, InClass) ==
    IF i > Len(s) THEN acc
    ELSE LET w == InClass[s[i]] IN
         IF acc # <<>> /\ acc[Len(acc)].inside = w
         THEN RunsFrom(s, i + 1,
                       [acc EXCEPT ![Len(acc)].text = Append(@, s[i])], InClass)
         ELSE RunsFrom(s, i + 1,
                       Append(acc, [inside |-> w, text |-> <<s[i]>>]), InClass)

WordClass == [c \in Chars |-> IsWordCh(c)]
NonSpaceClass == [c \in Chars |-> ~IsSpaceCh(c)]

RECURSIVE Concat(_)
Concat(ss) == IF ss = <<>> THEN <<>> ELSE Head(ss) \o Concat(Tail(ss))

\* str.split(): the maximal runs of non-whitespace characters
split(s) ==
    LET runs == RunsFrom(s, 1, <<>>, NonSpaceClass) IN
    LET RECURSIVE Keep(_)
        Keep(rs) == IF rs = <<>> THEN <<>>
                    ELSE IF Head(rs).inside THEN <<Head(rs).text>> \o Keep(Tail(rs))
                    ELSE Keep(Tail(rs))
    IN Keep(runs)

\* ' '.join(words)
RECURSIVE join_space(_)
join_space(words) ==
    IF words = <<>> THEN <<>>
    ELSE IF Len(words) = 1 THEN words[1]
    ELSE words[1] \o <<" ">> \o join_space(Tail(words))

\* AddressNormalizer.STATE_ABBREV
STATE_ABBREV == {
    <<<<"a", "l", "a", "b", "a", "m", "a">>, <<"A", "L">>>>,
    <<<<"a", "l", "a", "s", "k", "a">>, <<"A", "K">>>>,
    <<<<"a", "r", "i", "z", "o", "n", "a">>, <<"A", "Z">>>>,
    <<<<"a", "r", "k", "a", "n", "s", "a", "s">>, <<"A", "R">>>>,
    <<<<"c", "a", "l", "i", "f", "o", "r", "n", "i", "a">>, <<"C", "A">>>>,
    <<<<"c", "o", "l", "o", "r", "a", "d", "o">>, <<"C", "O">>>>,
    <<<<"c", "o", "n", "n", "e", "c", "t", "i", "c", "u", "t">>, <<"C", "T">>>>,
    <<<<"d", "e", "l", "a", "w", "a", "r", "e">>, <<"D", "E">>>>,
    <<<<"f", "l", "o", "r", "i", "d", "a">>, <<"F", "L">>>>,
    <<<<"g", "e", "o", "r", "g", "i", "a">>, <<"G", "A">>>>,
    <<<<"h", "a", "w", "a", "i", "i">>, <<"H", "I">>>>,
    <<<<"i", "d", "a", "h", "o">>, <<"I", "D">>>>,
    <<<<"i", "l", "l", "i", "n", "o", "i", "s">>, <<"I", "L">>>>,
    <<<<"i", "n", "d", "i", "a", "n", "a">>, <<"I", "N">>>>,
    <<<<"i", "o", "w", "a">>, <<"I", "A">>>>,
    <<<<"k", "a", "n", "s", "a", "s">>, <<"K", "S">>>>,
    <<<<"k", "e", "n", "t", "u", "c", "k", "y">>, <<"K", "Y">>>>,
    <<<<"l", "o", "u", "i", "s", "i", "a", "n", "a">>, <<"L", "A">>>>,
    <<<<"m", "a", "i", "n", "e">>, <<"M", "E">>>>,
    <<<<"m", "a", "r", "y", "l", "a", "n", "d">>, <<"M", "D">>>>,
    <<<<"m", "a", "s", "s", "a", "c", "h", "u", "s", "e", "t", "t", "s">>, <<"M", "A">>>>,
    <<<<"m", "i", "c", "h", "i", "g", "a", "n">>, <<"M", "I">>>>,
    <<<<"m", "i", "n", "n", "e", "s", "o", "t", "a">>, <<"M", "N">>>>,
    <<<<"m", "i", "s", "s", "i", "s", "s", "i", "p", "p", "i">>, <<"M", "S">>>>,
    <<<<"m", "i", "s", "s", "o", "u", "r", "i">>, <<"M", "O">>>>,
    <<<<"m", "o", "n", "t", "a", "n", "a">>, <<"M", "T">>>>,
    <<<<"n", "e", "b", "r", "a", "s", "k", "a">>, <<"N", "E">>>>,
    <<<<"n", "e", "v", "a", "d", "a">>, <<"N", "V">>>>,
    <<<<"n", "e", "w", " ", "h", "a", "m", "p", "s", "h", "i", "r", "e">>, <<"N", "H">>>>,
    <<<<"n", "e", "w", " ", "j", "e", "r", "s", "e", "y">>, <<"N", "J">>>>,
    <<<<"n", "e", "w", " ", "m", "e", "x", "i", "c", "o">>, <<"N", "M">>>>,
    <<<<"n", "e", "w", " ", "y", "o", "r", "k">>, <<"N", "Y">>>>,
    <<<<"n", "o", "r", "t", "h", " ", "c", "a", "r", "o", "l", "i", "n", "a">>, <<"N", "C">>>>,
    <<<<"n", "o", "r", "t", "h", " ", "d", "a", "k", "o", "t", "a">>, <<"N", "D">>>>,
    <<<<"o", "h", "i", "o">>, <<"O", "H">>>>,
    <<<<"o", "k", "l", "a", "h", "o", "m", "a">>, <<"O", "K">>>>,
    <<<<"o", "r", "e", "g", "o", "n">>, <<"O", "R">>>>,
    <<<<"p", "e", "n", "n", "s", "y", "l", "v", "a", "n", "i", "a">>, <<"P", "A">>>>,
    <<<<"r", "h", "o", "d", "e", " ", "i", "s", "l", "a", "n", "d">>, <<"R", "I">>>>,
    <<<<"s", "o", "u", "t", "h", " ", "c", "a", "r", "o", "l", "i", "n", "a">>, <<"S", "C">>>>,
    <<<<"s", "o", "u", "t", "h", " ", "d", "a", "k", "o", "t", "a">>, <<"S", "D">>>>,
    <<<<"t", "e", "n", "n", "e", "s", "s", "e", "e">>, <<"T", "N">>>>,
    <<<<"t", "e", "x", "a", "s">>, <<"T", "X">>>>,
    <<<<"u", "t", "a", "h">>, <<"U", "T">>>>,
    <<<<"v", "e", "r", "m", "o", "n", "t">>, <<"V", "T">>>>,
    <<<<"v", "i", "r", "g", "i", "n", "i", "a">>, <<"V", "A">>>>,
    <<<<"w", "a", "s", "h", "i", "n", "g", "t", "o", "n">>, <<"W", "A">>>>,
    <<<<"w", "e", "s", "t", " ", "v", "i", "r", "g", "i", "n", "i", "a">>, <<"W", "V">>>>,
    <<<<"w", "i", "s", "c", "o", "n", "s", "i", "n">>, <<"W", "I">>>>,
    <<<<"w", "y", "o", "m", "i", "n", "g">>, <<"W", "Y">>>>,
    <<<<"d", "i", "s", "t", "r", "i", "c", "t", " ", "o", "f", " ", "c", "o", "l", "u", "m", "b", "i", "a">>, <<"D", "C">>>>}

\* AddressNormalizer.STREET_TYPES
STREET_TYPES == {
    <<<<"s", "t", "r", "e", "e", "t">>, <<"S", "t">>>>,
    <<<<"s", "t">>, <<"S", "t">>>>,
    <<<<"a", "v", "e", "n", "u", "e">>, <<"A", "v", "e">>>>,
    <<<<"a", "v", "e">>, <<"A", "v", "e">>>>,
    <<<<"r", "o", "a", "d">>, <<"R", "d">>>>,
    <<<<"r", "d">>, <<"R", "d">>>>,
    <<<<"d", "r", "i", "v", "e">>, <<"D", "r">>>>,
    <<<<"d", "r">>, <<"D", "r">>>>,
    <<<<"b", "o", "u", "l", "e", "v", "a", "r", "d">>, <<"B", "l", "v", "d">>>>,
    <<<<"b", "l", "v", "d">>, <<"B", "l", "v", "d">>>>,
    <<<<"c", "o", "u", "r", "t">>, <<"C", "t">>>>,
    <<<<"c", "t">>, <<"C", "t">>>>,
    <<<<"l", "a", "n", "e">>, <<"L", "n">>>>,
    <<<<"l", "n">>, <<"L", "n">>>>,
    <<<<"w", "a", "y">>, <<"W", "a", "y">>>>,
    <<<<"c", "i", "r", "c", "l", "e">>, <<"C", "i", "r">>>>,
    <<<<"c", "i", "r">>, <<"C", "i", "r">>>>,
    <<<<"t", "r", "a", "i", "l">>, <<"T", "r", "l">>>>,
    <<<<"t", "r", "l">>, <<"T", "r", "l">>>>,
    <<<<"p", "a", "r", "k", "w", "a", "y">>, <<"P", "k", "w", "y">>>>,
    <<<<"p", "k", "w", "y">>, <<"P", "k", "w", "y">>>>,
    <<<<"p", "l", "a", "z", "a">>, <<"P", "l", "z">>>>,
    <<<<"p", "l", "z">>, <<"P", "l", "z">>>>,
    <<<<"t", "e", "r", "r", "a", "c", "e">>, <<"T", "e", "r">>>>,
    <<<<"t", "e", "r">>, <<"T", "e", "r">>>>,
    <<<<"h", "i", "g", "h", "w", "a", "y">>, <<"H", "w", "y">>>>,
    <<<<"h", "w", "y">>, <<"H", "w", "y">>>>}

\* The alternatives of the direction pattern of normalize_street
Directions == {
    <<"N", "o", "r", "t", "h">>,
    <<"S", "o", "u", "t", "h">>,
    <<"E", "a", "s", "t">>,
    <<"W", "e", "s", "t">>,
    <<"N", "o", "r", "t", "h", "e", "a", "s", "t">>,
    <<"N", "o", "r", "t", "h", "w", "e", "s", "t">>,
    <<"S", "o", "u", "t", "h", "e", "a", "s", "t">>,
    <<"S", "o", "u", "t", "h", "w", "e", "s", "t">>}

Lookup(tbl, key) == (CHOOSE p \in tbl : p[1] = key)[2]
HasKey(tbl, key) == \E p \in tbl : p[1] = key

\* re.sub(r'\b(North|...|Southwest)\b', lambda m: m.group(1)[:1], street):
\* a whole word that is one of the alternatives becomes its first character
DirectionAbbrev(word) == SubSeq(word, 1, 1)

sub_directions(s) ==
    LET runs == RunsFrom(s, 1, <<>>, WordClass) IN
    Concat([i \in 1..Len(runs) |->
              IF runs[i].inside /\ runs[i].text \in Directions
              THEN DirectionAbbrev(runs[i].text)
              ELSE runs[i].text])

\* for full, abbrev in STREET_TYPES.items():
\*     street = re.sub(rf'\b{full}\b', abbrev, street, flags=re.IGNORECASE)
\* Every key is a word and every abbreviation is a key's abbreviation of
\* itself, so the loop replaces each whole word that is a key, compared
\* without case, by its abbreviation.
sub_street_types(s) ==
    LET runs == RunsFrom(s, 1, <<>>, WordClass) IN
    Concat([i \in 1..Len(runs) |->
              IF runs[i].inside /\ HasKey(STREET_TYPES, lower(runs[i].text))
              THEN Lookup(STREET_TYPES, lower(runs[i].text))
              ELSE runs[i].text])

\* AddressNormalizer.normalize_street
normalize_street(street) ==
    IF street = <<>> THEN <<>>
    ELSE strip(sub_street_types(sub_directions(title(join_space(split(street))))))

\* A city that is capitalized but keeps its whitespace
normalize_city_untrimmed(city) ==
    IF city = <<>> THEN <<>>
    ELSE title(city)

\* AddressNormalizer.normalize_city
normalize_city(city) ==
    IF city = <<>> THEN <<>>
    ELSE strip(title(join_space(split(city))))

\* A lookup of the state as it was written, without lowercasing it
normalize_state_as_written(state) ==
    IF state = <<>> THEN <<>>
    ELSE LET st == strip(state) IN
         IF Len(st) = 2 /\ isupper(st) THEN upper(st)
         ELSE IF HasKey(STATE_ABBREV, st) THEN Lookup(STATE_ABBREV, st)
         ELSE upper(st)

\* AddressNormalizer.normalize_state
normalize_state(state) ==
    IF state = <<>> THEN <<>>
    ELSE LET st == lower(strip(state)) IN
         IF Len(st) = 2 /\ isupper(st) THEN upper(st)
         ELSE IF HasKey(STATE_ABBREV, st) THEN Lookup(STATE_ABBREV, st)
         ELSE upper(st)

\* re.sub(r'\D', '', zip_code)
digits_of(s) == SelectSeq(s, IsDigitCh)

\* AddressNormalizer.normalize_zip
normalize_zip(zip_code) ==
    IF zip_code = <<>> THEN <<>>
    ELSE LET digits == digits_of(zip_code) IN
         IF Len(digits) >= 9
         THEN SubSeq(digits, 1, 5) \o <<"-">> \o SubSeq(digits, 6, 9)
         ELSE IF Len(digits) = 5 THEN digits
         ELSE <<>>

\* AddressNormalizer.normalize_address
normalize_address(street, city, state, zip_code) ==
    [street |-> normalize_street(street), city |-> normalize_city(city),
     state |-> normalize_state(state), zip_code |-> normalize_zip(zip_code)]

\* AddressNormalizer.is_valid_address
is_valid_address(street, city, state, zip_code) ==
    street # <<>> /\ city # <<>> /\ state # <<>> /\ zip_code # <<>>

----------------------------------------------------------------------------
(* The listing store.                                                      *)

\* FSBODatabase._generate_hash: md5 of the concatenation of the lowercased
\* street, city and state and the zip code.  md5 is taken to be injective,
\* so the digest is represented by the string it is computed from.
generate_hash(street, city, state, zip_code) ==
    lower(street) \o lower(city) \o lower(state) \o zip_code

Hashes(tbl) == {tbl[i].listing_hash : i \in 1..Len(tbl)}

\* A listing_hash column without the UNIQUE constraint: no insert is
\* rejected
NoUniqueConstraint(tbl, h) == FALSE

\* The UNIQUE constraint of column listing_hash
UniqueViolation(tbl, h) == h \in Hashes(tbl)

\* The row an INSERT INTO listings creates (id from AUTOINCREMENT, scraped_at
\* and last_updated from DEFAULT CURRENT_TIMESTAMP, is_exported DEFAULT 0)
NewRow(seq, l, t) ==
    [id |-> seq + 1,
     street |-> l.street, city |-> l.city, state |-> l.state,
     zip_code |-> l.zip_code,
     listing_url |-> l.listing_url, source_website |-> l.source_website,
     scraped_at |-> t, last_updated |-> t,
     listing_hash |-> generate_hash(l.street, l.city, l.state, l.zip_code),
     is_exported |-> 0, notes |-> l.notes]

\* FSBODatabase.add_listing on table tbl with AUTOINCREMENT counter seq at
\* time t.  db_error: the connection fails (sqlite3.OperationalError), the
\* transaction is rolled back and the error is raised.  An IntegrityError
\* is caught and None is returned.
add_listing(tbl, seq, l, t, db_error) ==
    LET h == generate_hash(l.street, l.city, l.state, l.zip_code) IN
    IF db_error
    THEN [listings |-> tbl, seq |-> seq, ret |-> None, raised |-> TRUE]
    ELSE IF UniqueViolation(tbl, h)
    THEN [listings |-> tbl, seq |-> seq, ret |-> None, raised |-> FALSE]
    ELSE [listings |-> Append(tbl, NewRow(seq, l, t)), seq |-> seq + 1,
          ret |-> seq + 1, raised |-> FALSE]

\* A loop body that counts every listing of the batch as new
bulk_count_all_new(new_count, duplicate_count, result) == <<new_count + 1, duplicate_count>>

\* The body of the loop after add_listing has returned result: new_count
\* += 1 when it is an id, duplicate_count += 1 when it is None
bulk_count(new_count, duplicate_count, result) == IF result # None THEN <<new_count + 1, duplicate_count>> ELSE <<new_count, duplicate_count + 1>>

\* An UPDATE without its WHERE clause: every row is marked
mark_every_row(tbl, listing_ids, at) ==
    [i \in 1..Len(tbl) |->
        [tbl[i] EXCEPT !.is_exported = 1,
                       !.last_updated = IF tbl[i].id \in listing_ids
                                        THEN at[tbl[i].id] ELSE 0]]

\* FSBODatabase.mark_as_exported: one UPDATE ... SET is_exported = 1,
\* last_updated = CURRENT_TIMESTAMP WHERE id = ? for each id, in one
\* transaction.  CURRENT_TIMESTAMP is evaluated by each statement: at[id] is
\* the second in which the UPDATE of id runs.
mark_as_exported(tbl, listing_ids, at) ==
    [i \in 1..Len(tbl) |->
        IF tbl[i].id \in listing_ids
        THEN [tbl[i] EXCEPT !.is_exported = 1, !.last_updated = at[tbl[i].id]]
        ELSE tbl[i]]

\* A selection that leaves out the is_exported condition
SelectedIdsAnyFlag(tbl, source, exported) ==
    {tbl[i].id : i \in {j \in 1..Len(tbl) :
        source # NULL => tbl[j].source_website = source}}

\* FSBODatabase.get_listings without limit: the rows of the source (every
\* source when none is given) whose is_exported is 1 when exported is set
\* and 0 otherwise; the ids of the rows selected
SelectedIds(tbl, source, exported) ==
    {tbl[i].id : i \in {j \in 1..Len(tbl) :
        /\ (source # NULL => tbl[j].source_website = source)
        /\ tbl[j].is_exported = (IF exported THEN 1 ELSE 0)}}

\* The row of table tbl with the given id
RowById(tbl, id) == tbl[CHOOSE i \in 1..Len(tbl) : tbl[i].id = id]

Ids(tbl) == {tbl[i].id : i \in 1..Len(tbl)}

\* ORDER BY scraped_at DESC: the orders in which the selected rows may come
\* back, as sequences of ids (rows of one scraped_at in any order)
ExportOrders(tbl, ids) ==
    {o \in [1..Cardinality(ids) -> ids] :
        /\ \A i, j \in 1..Cardinality(ids) : i # j => o[i] # o[j]
        /\ \A i, j \in 1..Cardinality(ids) :
              i < j => RowById(tbl, o[i]).scraped_at >= RowById(tbl, o[j]).scraped_at}

\* fieldnames of export_to_csv: the columns of the file, in order
fieldnames ==
    <<"id", "street", "city", "state", "zip_code", "listing_url",
      "source_website", "scraped_at">>

\* {key: listing.get(key, '') for key in fieldnames}: a data row of the file
CsvRow(row) ==
    <<row.id, row.street, row.city, row.state, row.zip_code, row.listing_url,
      row.source_website, row.scraped_at>>

\* No file is written
NoFile == [written |-> FALSE, header |-> <<>>, rows |-> <<>>]

\* The file export_to_csv writes for the rows get_listings returned in the
\* given order: writeheader() and writerows(); nothing when there is no row
CsvFile(tbl, order) ==
    IF order = <<>>
    THEN NoFile
    ELSE [written |-> TRUE, header |-> fieldnames,
          rows |-> [k \in 1..Len(order) |-> CsvRow(RowById(tbl, order[k]))]]

\* An export that marks what it has written as exported
export_to_csv_marking(tbl, source, exported_only, t) ==
    [listings |-> mark_as_exported(tbl, SelectedIds(tbl, source, exported_only),
                                   [id \in SelectedIds(tbl, source, exported_only) |-> t]),
     ids |-> SelectedIds(tbl, source, exported_only)]

\* FSBODatabase.export_to_csv: the listings get_listings selects are written
\* to the file (no file when there is none); the table is only read
export_to_csv(tbl, source, exported_only, t) ==
    [listings |-> tbl, ids |-> SelectedIds(tbl, source, exported_only)]

\* FSBODatabase.record_scrape_session: one INSERT INTO scrape_history
SessionRow(seq, source_website, listings_found, listings_new, listings_duplicates, errors, error_message, status, t) ==
    [id |-> seq + 1, source_website |-> source_website,
     scrape_start |-> t, scrape_end |-> t,
     listings_found |-> listings_found, listings_new |-> listings_new,
     listings_duplicates |-> listings_duplicates, errors |-> errors,
     status |-> status, error_message |-> error_message]

\* FSBODatabase.record_scrape_session: the row is inserted, or the
\* connection fails and nothing is written
record_scrape_session(tbl, seq, source_website, listings_found, listings_new, listings_duplicates, errors, error_message, status, t, db_error) ==
    IF db_error
    THEN [history |-> tbl, seq |-> seq, raised |-> TRUE]
    ELSE [history |-> Append(tbl, SessionRow(seq, source_website, listings_found,
                                listings_new, listings_duplicates, errors,
                                error_message, status, t)),
          seq |-> seq + 1, raised |-> FALSE]

\* The session row of table tbl with the given id
SessionById(tbl, id) == tbl[CHOOSE i \in 1..Len(tbl) : tbl[i].id = id]

\* FSBODatabase.get_scrape_history: the sessions of the source (of every
\* source when none is given) ORDER BY scrape_start DESC LIMIT limit, as
\* sequences of session ids.  SQL leaves the order of rows with one
\* scrape_start open, so every such order is a possible result.
get_scrape_history(tbl, source, limit) ==
    LET ids == {tbl[i].id : i \in {j \in 1..Len(tbl) :
                    source # NULL => tbl[j].source_website = source}}
        n == Cardinality(ids)
        orders == {o \in [1..n -> ids] :
                     /\ \A i, j \in 1..n : i # j => o[i] # o[j]
                     /\ \A i, j \in 1..n :
                           i < j => SessionById(tbl, o[i]).scrape_start
                                       >= SessionById(tbl, o[j]).scrape_start}
    IN  {SubSeq(o, 1, IF limit < n THEN limit ELSE n) : o \in orders}

----------------------------------------------------------------------------
(* The retry wrapper (utils/rate_limiter.py).                              *)

\* RetryConfig.__init__ defaults
DefaultMaxRetries == 3
DefaultBackoffFactor == 2
DefaultRetryOnStatus == {408, 429, 500, 502, 503, 504}

RetryConfig(max_retries, backoff_factor) ==
    [max_retries |-> max_retries, backoff_factor |-> backoff_factor,
     retry_on_status |-> DefaultRetryOnStatus]

\* What one attempt can raise: a network error, a timeout, or the HTTPError
\* of raise_for_status() with the response's status
NoException == [type |-> "None", status |-> 0]
Failures == {[type |-> "ConnectionError", status |-> 0],
             [type |-> "Timeout", status |-> 0],
             [type |-> "HTTPError", status |-> 503],
             [type |-> "HTTPError", status |-> 404]}

\* The classification the retry policy is specified with: a network error,
\* a timeout, or a status of config.retry_on_status
Retryable(config, e) ==
    \/ e.type \in {"ConnectionError", "Timeout"}
    \/ e.type = "HTTPError" /\ e.status \in config.retry_on_status

RECURSIVE Pow(_, _)
Pow(b, k) == IF k = 0 THEN 1 ELSE b * Pow(b, k - 1)

RtIdle == [pc |-> "idle", config |-> RetryConfig(DefaultMaxRetries, DefaultBackoffFactor),
           attempt |-> 0, calls |-> 0, sleeps |-> <<>>,
           last_exception |-> NoException]

\* wrapper(*args, **kwargs) is entered: last_exception = None, attempt = 0
RetryEnter(config) ==
    [pc |-> "try", config |-> config, attempt |-> 0, calls |-> 0,
     sleeps |-> <<>>, last_exception |-> NoException]

\* A wrapper that sleeps and tries again once more than max_retries allows
RetryAfterFailureOnceMore(r, e) ==
    IF r.attempt <= r.config.max_retries THEN "sleep" ELSE "raised"

\* The branch the wrapper takes when an attempt raised e: another attempt
\* after a sleep while attempt < max_retries, else the loop ends
RetryAfterFailure(r, e) ==
    IF r.attempt < r.config.max_retries THEN "sleep" ELSE "raised"

\* `return func(*args, **kwargs)`: the attempt succeeds
RetryAttemptOk ==
    /\ rt.pc = "try"
    /\ rt' = [rt EXCEPT !.pc = "returned", !.calls = @ + 1]

\* `except Exception as e`: the attempt raises e
RetryAttemptFail ==
    \E e \in Failures :
        /\ rt.pc = "try"
        /\ rt' = [rt EXCEPT !.pc = RetryAfterFailure(rt, e),
                            !.calls = @ + 1,
                            !.last_exception = e]

\* `time.sleep(wait_time)` with wait_time = backoff_factor ** attempt, then
\* the next iteration of the loop
RetrySleep ==
    /\ rt.pc = "sleep"
    /\ rt' = [rt EXCEPT !.pc = "try",
                        !.sleeps = Append(@, Pow(rt.config.backoff_factor, rt.attempt)),
                        !.attempt = @ + 1]

----------------------------------------------------------------------------
(* Inputs of the store's API.                                              *)

Str_1ASt == <<"1", " ", "A", " ", "S", "t">>
Str_1ast == <<"1", " ", "a", " ", "s", "t">>
Str_B == <<"B">>
Str_b == <<"b">>
Str_IL == <<"I", "L">>
Str_il == <<"i", "l">>
Str_62701 == <<"6", "2", "7", "0", "1">>
Str_2CRd == <<"2", " ", "C", " ", "R", "d">>
Str_D == <<"D">>
Str_TX == <<"T", "X">>
Str_75001 == <<"7", "5", "0", "0", "1">>

Addr(street, city, state, zip_code) ==
    [street |-> street, city |-> city, state |-> state, zip_code |-> zip_code]

AddrA == Addr(Str_1ASt, Str_B, Str_IL, Str_62701)
AddrALower == Addr(Str_1ast, Str_b, Str_il, Str_62701)
AddrB == Addr(Str_2CRd, Str_D, Str_TX, Str_75001)

AddrPool == {AddrA, AddrALower, AddrB}

SourceNames == {"FSBO.com", "Zillow FSBO"}

Listing(a, url, src) ==
    [street |-> a.street, city |-> a.city, state |-> a.state,
     zip_code |-> a.zip_code, listing_url |-> url, source_website |-> src,
     notes |-> NULL]

\* Listings as the pipeline hands them to the store
ListingPool == {Listing(AddrA, "url1", "FSBO.com"),
                Listing(AddrALower, "url2", "Zillow FSBO"),
                Listing(AddrB, "url3", "FSBO.com")}

RECURSIVE SeqsUpTo(_, _)
SeqsUpTo(S, n) ==
    IF n = 0 THEN {<<>>}
    ELSE LET shorter == SeqsUpTo(S, n - 1) IN
         shorter \cup {Append(s, x) : s \in {q \in shorter : Len(q) = n - 1}, x \in S}

\* The batches whose counts are checked: listings of two addresses
Batches == SeqsUpTo({Listing(AddrA, "url1", "FSBO.com"), Listing(AddrB, "url3", "FSBO.com")}, MaxBatch)

----------------------------------------------------------------------------
(* The store driven through its API.  Each add_listing runs on a           *)
(* connection of its own; CURRENT_TIMESTAMP advances between calls and     *)
(* between the add_listing calls of a batch.                               *)

\* The last call of the store's API and what it returned; before any call
\* every field has its empty value
NoListing == Listing(Addr(<<>>, <<>>, <<>>, <<>>), "", "")
NoCall == [op |-> "init", listing |-> NoListing, batch |-> <<>>, ids |-> {},
           ret |-> None, counts |-> <<0, 0>>, raised |-> FALSE,
           source |-> NULL, exported_only |-> FALSE, file |-> NoFile,
           limit |-> 0, history |-> <<>>,
           arg |-> <<>>, out |-> <<>>, again |-> <<>>]

\* time.time() when the model's RateLimiter or RequestThrottler is created:
\* the Unix time, which exceeds every delay
Epoch == MaxDelay + 1

\* RateLimiter.__init__: last_request_time = 0.  entered, returned and
\* delays log the instants at which the wait() calls were entered and
\* returned and the delay each of them drew.
NewRateLimiter(min_delay, max_delay, jitter) ==
    [min_delay |-> min_delay, max_delay |-> max_delay, jitter |-> jitter,
     last_request_time |-> 0, pc |-> "idle", wake |-> 0,
     entered |-> <<>>, returned |-> <<>>, delays |-> <<>>]

\* The domains requests are made to
Domains == {"example.com", "other.org"}

\* No call was made on the throttler yet
NoThCall ==
    [op |-> "init", domain |-> "", at |-> 0, logged |-> 0, throttle |-> FALSE, wait |-> 0]

\* RequestThrottler.__init__: request_times = {}.  keys are the domains
\* request_times has a list for; log is every request recorded so far, res
\* the last call made and its result, gw the last get_wait_time call (logged:
\* the requests recorded before it), ticks the clock advances so far.
NewThrottler(max_requests_per_minute) ==
    [max_requests_per_minute |-> max_requests_per_minute,
     keys |-> {},
     request_times |-> [d \in Domains |-> <<>>],
     log |-> <<>>,
     res |-> NoThCall,
     gw |-> NoThCall,
     ticks |-> 0]

\* No paginated discovery was started: listing_ids = [], page_num = 1.
\* pages counts the pages processed and found is listings_found of the
\* last of them.
PgIdle ==
    [pc |-> "idle", max_listings_from_url |-> 0, listing_ids |-> <<>>,
     page_num |-> 1, pages |-> 0, found |-> 0]

\* No bulk_add_listings call is in progress.  In a call, i is the position
\* in the batch of the listing the loop hands to add_listing next; before
\* is the set of fingerprints stored when the call was entered, and alone
\* tells that the listings table was, at each add_listing of the call, as
\* the previous one left it (last: the AUTOINCREMENT counter and the number
\* of rows it left).
BulkIdle ==
    [pc |-> "idle", batch |-> <<>>, i |-> 0, new_count |-> 0, duplicate_count |-> 0,
     before |-> {}, alone |-> TRUE, last |-> <<0, 0>>]

\* What tells whether a connection has inserted or deleted rows of the
\* listings table: an insert raises the counter, a delete lowers the number
\* of rows
Stamp(tbl, seq) == <<seq, Len(tbl)>>

Workers == 1..NumWorkers

\* No add_listing is in progress on any connection; no connection holds
\* the database's write lock
WorkerIdle == [pc |-> "idle", listing |-> NoListing, seen |-> {}, pending |-> <<>>,
               ret |-> None, raised |-> FALSE, since |-> 0]
ParIdle == [lock |-> 0, w |-> [i \in Workers |-> WorkerIdle], won |-> <<>>]

\* No run of the scrape command has begun.  In a run, disc holds the
\* scrape_urls (search queries) get_listing_urls has still to go through,
\* cap is max_listings (max_search_results) and found is len(listing_ids);
\* bi is the position in the batch of the listing bulk_add_listings hands to
\* add_listing next, and stored holds the ids add_listing returned to it.
RunIdle == [pc |-> "idle", scraper_name |-> "none",
            hist0 |-> 0, targets |-> <<>>, idx |-> 0, all_listings |-> <<>>,
            scraped |-> <<>>, new_count |-> 0, dup_count |-> 0,
            log |-> <<>>, disc_failed |-> FALSE, fault |-> "none",
            closed |-> FALSE, bare_fetches |-> 0, cleanup_failed |-> FALSE,
            disc |-> <<>>, cap |-> 0, found |-> 0, bi |-> 1, stored |-> {}]

StoreInit ==
    /\ listings = <<>>
    /\ listing_seq = 0
    /\ scrape_history = <<>>
    /\ history_seq = 0
    /\ now = 0
    /\ call = NoCall
    /\ rt = RtIdle
    /\ run = RunIdle
    /\ par = ParIdle
    /\ pg = PgIdle
    /\ bulk = BulkIdle
    /\ rl = NewRateLimiter(1, 1, FALSE)
    /\ th = NewThrottler(1)

\* A second passes
Tick ==
    /\ now < MaxTime
    /\ now' = now + 1
    /\ UNCHANGED <<listings, listing_seq, scrape_history, history_seq, call, rt, run, par, rl, th, pg, bulk>>

StoreAddListing ==
    \E l \in ListingPool :
        LET r == add_listing(listings, listing_seq, l, now, FALSE) IN
        /\ r.seq <= MaxListingSeq
        /\ listings' = r.listings
        /\ listing_seq' = r.seq
        /\ call' = [NoCall EXCEPT !.op = "add_listing", !.listing = l,
                                  !.ret = r.ret, !.raised = r.raised]
        /\ UNCHANGED <<scrape_history, history_seq, now, rt, run, par, rl, th, pg, bulk>>

\* bulk_add_listings(batch) is entered: new_count = 0, duplicate_count = 0
BulkEnter(batches) ==
    \E batch \in batches :
        /\ bulk.pc = "idle"
        /\ bulk' = [BulkIdle EXCEPT !.pc = "loop", !.batch = batch, !.i = 1,
                                    !.before = Hashes(listings),
                                    !.last = Stamp(listings, listing_seq)]
        /\ call' = [NoCall EXCEPT !.op = "bulk_add_listings", !.batch = batch]
        /\ UNCHANGED <<storeVars, rt, run, par, rl, th, pg>>

\* One iteration of the loop of bulk_add_listings: add_listing of the next
\* listing of the batch on a connection of its own (opened, committed and
\* closed within the iteration), then the count.  Other connections and the
\* clock come between two iterations.
BulkIteration ==
    /\ bulk.pc = "loop"
    /\ bulk.i <= Len(bulk.batch)
    /\ LET l == bulk.batch[bulk.i]
           r == add_listing(listings, listing_seq, l, now, FALSE)
           c == bulk_count(bulk.new_count, bulk.duplicate_count, r.ret)
           alone == bulk.alone /\ Stamp(listings, listing_seq) = bulk.last
       IN /\ r.seq <= MaxListingSeq
          /\ listings' = r.listings
          /\ listing_seq' = r.seq
          /\ bulk' = [bulk EXCEPT !.i = @ + 1,
                                  !.new_count = c[1],
                                  !.duplicate_count = c[2],
                                  !.alone = alone,
                                  !.last = IF alone THEN Stamp(r.listings, r.seq)
                                           ELSE <<0, 0>>]
          /\ call' = [NoCall EXCEPT !.op = "add_listing", !.listing = l,
                                    !.ret = r.ret, !.raised = r.raised]
    /\ UNCHANGED <<scrape_history, history_seq, now, rt, run, par, rl, th, pg>>

\* The batch is exhausted: return new_count, duplicate_count
BulkReturn ==
    /\ bulk.pc = "loop"
    /\ bulk.i > Len(bulk.batch)
    /\ call' = [NoCall EXCEPT !.op = "bulk_add_listings",
                              !.batch = bulk.batch,
                              !.counts = <<bulk.new_count, bulk.duplicate_count>>]
    /\ bulk' = BulkIdle
    /\ UNCHANGED <<storeVars, rt, run, par, rl, th, pg>>

\* The batches stored next to the store's whole API: a listing followed by
\* the same one, by another spelling of its address, or by another address
StoreBatches == {<<Listing(AddrA, "url1", "FSBO.com"), l>> : l \in ListingPool}

\* bulk_add_listings of a short batch, next to the calls other connections
\* make on the store
StoreBulkAddListings ==
    \/ BulkEnter(StoreBatches)
    \/ BulkIteration
    \/ BulkReturn

\* mark_as_exported(listing_ids): the UPDATEs of one transaction, which
\* holds the write lock from the first of them to the commit.  The clock
\* goes on while they run: the call ends in second end, and each UPDATE runs
\* in a second between the one the call began in and end (the ids come in
\* any order).
StoreMarkAsExported ==
    \E ids \in SUBSET (1..MaxListingSeq), end \in now..MaxTime :
        \E at \in [ids -> now..end] :
            /\ listings' = mark_as_exported(listings, ids, at)
            /\ now' = end
            /\ call' = [NoCall EXCEPT !.op = "mark_as_exported", !.ids = ids]
            /\ UNCHANGED <<listing_seq, scrape_history, history_seq, rt, run, par, rl, th, pg, bulk>>

\* FSBODatabase.clear_all_data: DELETE FROM listings, DELETE FROM
\* scrape_history (the AUTOINCREMENT counters are kept by SQLite)
StoreClearAllData ==
    /\ listings' = <<>>
    /\ scrape_history' = <<>>
    /\ call' = [NoCall EXCEPT !.op = "clear_all_data"]
    /\ UNCHANGED <<listing_seq, history_seq, now, rt, run, par, rl, th, pg, bulk>>

\* The calls that write the listings table, on any connections, with the
\* clock running
StoreNext ==
    \/ StoreAddListing
    \/ StoreBulkAddListings
    \/ StoreMarkAsExported
    \/ StoreClearAllData
    \/ Tick

SpecStore == StoreInit /\ [][StoreNext]_vars

\* bulk_add_listings of the longer batches, next to the connections of other
\* source runs, which insert listings, and to clear_all_data
BulkNext ==
    \/ BulkEnter(Batches)
    \/ BulkIteration
    \/ BulkReturn
    \/ StoreAddListing
    \/ StoreClearAllData
    \/ Tick

SpecBulk == StoreInit /\ [][BulkNext]_vars

----------------------------------------------------------------------------
(* Listings are exported.                                                  *)

\* The source filters of an export: none, or a source name
ExportSources == {NULL, "FSBO.com", "Zillow FSBO"}

\* export_to_csv(output_path, source, exported_only): the export command,
\* or the export at the end of the scrape command (no filter)
StoreExportToCsv ==
    \E source \in ExportSources, exported_only \in BOOLEAN :
        LET r == export_to_csv(listings, source, exported_only, now) IN
        \E order \in ExportOrders(listings, r.ids) :
        /\ listings' = r.listings
        /\ call' = [NoCall EXCEPT !.op = "export_to_csv", !.ids = r.ids,
                       !.source = source, !.exported_only = exported_only,
                       !.file = CsvFile(listings, order)]
        /\ UNCHANGED <<listing_seq, scrape_history, history_seq, now, rt, run, par, rl, th, pg, bulk>>

\* Exports next to the connections that insert, mark and clear listings,
\* with the clock running
ExportNext ==
    \/ StoreAddListing
    \/ StoreMarkAsExported
    \/ StoreClearAllData
    \/ StoreExportToCsv
    \/ Tick

SpecExport == StoreInit /\ [][ExportNext]_vars

----------------------------------------------------------------------------
(* The session log next to the listing store.                              *)

\* The sessions the scrape command records: a completed one under the
\* source's name, a failed one under the scraper's registry name
SessionInputs ==
    {[source_website |-> "FSBO.com", listings_found |-> 1, listings_new |-> 1,
      listings_duplicates |-> 0, errors |-> 0, error_message |-> NULL,
      status |-> "completed"],
     [source_website |-> "Zillow FSBO", listings_found |-> 2, listings_new |-> 1,
      listings_duplicates |-> 1, errors |-> 0, error_message |-> NULL,
      status |-> "completed"],
     [source_website |-> "fsbo_com", listings_found |-> 0, listings_new |-> 0,
      listings_duplicates |-> 0, errors |-> 1, error_message |-> "error",
      status |-> "failed"]}

StoreRecordSession ==
    \E x \in SessionInputs :
        LET r == record_scrape_session(scrape_history, history_seq,
                    x.source_website, x.listings_found, x.listings_new,
                    x.listings_duplicates, x.errors, x.error_message,
                    x.status, now, FALSE) IN
        /\ history_seq < MaxSessions
        /\ scrape_history' = r.history
        /\ history_seq' = r.seq
        /\ call' = [NoCall EXCEPT !.op = "record_scrape_session", !.ret = r.seq]
        /\ UNCHANGED <<listings, listing_seq, now, rt, run, par, rl, th, pg, bulk>>

\* The source filters of a history query: none, or a source name
HistorySources == {NULL, "FSBO.com", "fsbo_com"}

\* get_scrape_history(source, limit): the stats command, or any caller
StoreGetScrapeHistory ==
    \E source \in HistorySources, limit \in 1..MaxSessions :
        \E result \in get_scrape_history(scrape_history, source, limit) :
            /\ call' = [NoCall EXCEPT !.op = "get_scrape_history",
                           !.source = source, !.limit = limit,
                           !.history = result]
            /\ UNCHANGED <<storeVars, rt, run, par, rl, th, pg, bulk>>

LogNext ==
    \/ StoreRecordSession
    \/ StoreAddListing
    \/ StoreClearAllData
    \/ Tick

SpecLog == StoreInit /\ [][LogNext]_vars

\* Sessions are recorded and the history is queried while the clock runs
HistoryNext ==
    \/ StoreRecordSession
    \/ StoreGetScrapeHistory
    \/ Tick

SpecHistory == StoreInit /\ [][HistoryNext]_vars

----------------------------------------------------------------------------
(* The RateLimiter (utils/rate_limiter.py), its wait() taken in two steps: *)
(* up to time.sleep(), and from the end of the sleep to the return.        *)

\* A wait() that never sleeps
NoSleep(elapsed, delay) == 0

\* `if elapsed < delay: sleep_time = delay - elapsed`: how long wait() sleeps
SleepTime(elapsed, delay) == IF elapsed < delay THEN delay - elapsed ELSE 0

\* random.uniform(min_delay, max_delay) with jitter, min_delay without
Delays(r) == IF r.jitter THEN r.min_delay..r.max_delay ELSE {r.min_delay}

\* wait() is entered: elapsed and delay are computed and the sleep begins
WaitBegin ==
    \E delay \in Delays(rl) :
        /\ rl.pc = "idle"
        /\ Len(rl.entered) < MaxWaits
        /\ rl' = [rl EXCEPT
              !.pc = "sleeping",
              !.wake = now + SleepTime(now - rl.last_request_time, delay),
              !.entered = Append(@, now),
              !.delays = Append(@, delay)]
        /\ UNCHANGED <<storeVars, call, rt, run, par, th, pg, bulk>>

\* time.sleep() is over (it lasts at least the time asked for);
\* last_request_time = time.time() and wait() returns
WaitEnd ==
    /\ rl.pc = "sleeping"
    /\ now >= rl.wake
    /\ rl' = [rl EXCEPT !.pc = "idle", !.last_request_time = now,
                        !.returned = Append(@, now)]
    /\ UNCHANGED <<storeVars, call, rt, run, par, th, pg, bulk>>

\* RateLimiter.record_request
LimiterRecordRequest ==
    /\ rl.pc = "idle"
    /\ rl.last_request_time # now
    /\ rl' = [rl EXCEPT !.last_request_time = now]
    /\ UNCHANGED <<storeVars, call, rt, run, par, th, pg, bulk>>

\* A second passes
ClockTick ==
    /\ now < Epoch + MaxClock
    /\ now' = now + 1
    /\ UNCHANGED <<listings, listing_seq, scrape_history, history_seq, call, rt, run, par, rl, th, pg, bulk>>

\* A RateLimiter is created, at the Unix time Epoch
LimiterInit ==
    /\ listings = <<>>
    /\ listing_seq = 0
    /\ scrape_history = <<>>
    /\ history_seq = 0
    /\ now = Epoch
    /\ call = NoCall
    /\ rt = RtIdle
    /\ run = RunIdle
    /\ par = ParIdle
    /\ pg = PgIdle
    /\ bulk = BulkIdle
    /\ th = NewThrottler(1)
    /\ \E min_delay \in 1..MaxDelay, max_delay \in 1..MaxDelay, jitter \in BOOLEAN :
          /\ min_delay <= max_delay
          /\ rl = NewRateLimiter(min_delay, max_delay, jitter)

LimiterNext ==
    \/ WaitBegin
    \/ WaitEnd
    \/ LimiterRecordRequest
    \/ ClockTick

SpecLimiter == LimiterInit /\ [][LimiterNext]_vars

----------------------------------------------------------------------------
(* The RequestThrottler (utils/rate_limiter.py).                           *)

\* The sliding window, in seconds
Window == 60

\* A window that still holds the request made exactly Window seconds ago
InWindowInclusive(t, cutoff) == t >= cutoff

\* `t > cutoff`: the request at t is inside the window that starts at cutoff
InWindow(t, cutoff) == t > cutoff

\* [t for t in times if t > cutoff]
Recent(times, cutoff) == SelectSeq(times, LAMBDA t : InWindow(t, cutoff))

\* should_throttle: creates the domain's list, drops the requests outside
\* the window and compares what is left with the cap
should_throttle(t_h, domain, t) ==
    LET kept == Recent(t_h.request_times[domain], t - Window)
    IN  [th |-> [t_h EXCEPT !.keys = @ \cup {domain},
                            !.request_times[domain] = kept],
         ret |-> Len(kept) >= t_h.max_requests_per_minute]

\* record_request: appends the current instant, whatever the cap
record_request(t_h, domain, t) ==
    [t_h EXCEPT !.keys = @ \cup {domain},
                !.request_times[domain] = Append(@, t)]

\* A wait time taken from the newest request in the window
get_wait_time_newest(t_h, domain, t) ==
    IF domain \notin t_h.keys \/ t_h.request_times[domain] = <<>>
    THEN 0
    ELSE LET recent_requests == Recent(t_h.request_times[domain], t - Window)
         IN  IF Len(recent_requests) < t_h.max_requests_per_minute
             THEN 0
             ELSE (recent_requests[Len(recent_requests)] + Window) - t

\* get_wait_time: 0 under the cap, else the time until the oldest request
\* of the window leaves it; changes nothing
get_wait_time(t_h, domain, t) ==
    IF domain \notin t_h.keys \/ t_h.request_times[domain] = <<>>
    THEN 0
    ELSE LET recent_requests == Recent(t_h.request_times[domain], t - Window)
         IN  IF Len(recent_requests) < t_h.max_requests_per_minute
             THEN 0
             ELSE (recent_requests[1] + Window) - t

ThShouldThrottle ==
    \E domain \in Domains :
        LET r == should_throttle(th, domain, now)
        IN  /\ th' = [r.th EXCEPT !.res = [NoThCall EXCEPT
                         !.op = "should_throttle", !.domain = domain,
                         !.at = now, !.throttle = r.ret]]
            /\ UNCHANGED <<storeVars, call, rt, run, par, rl, pg, bulk>>

ThRecordRequest ==
    \E domain \in Domains :
        /\ Len(th.log) < MaxRequests
        /\ th' = [record_request(th, domain, now) EXCEPT
              !.log = Append(@, [domain |-> domain, at |-> now]),
              !.res = [NoThCall EXCEPT !.op = "record_request",
                                       !.domain = domain, !.at = now]]
        /\ UNCHANGED <<storeVars, call, rt, run, par, rl, pg, bulk>>

ThGetWaitTime ==
    \E domain \in Domains :
        LET r == [NoThCall EXCEPT !.op = "get_wait_time", !.domain = domain,
                    !.at = now, !.logged = Len(th.log),
                    !.wait = get_wait_time(th, domain, now)]
        IN  /\ th' = [th EXCEPT !.res = r, !.gw = r]
            /\ UNCHANGED <<storeVars, call, rt, run, par, rl, pg, bulk>>

\* The gaps between two calls on the throttler: a second, or a second less
\* than the window
TickSteps == {1, Window - 1}

ThTick ==
    \E step \in TickSteps :
        /\ th.ticks < MaxThTicks
        /\ now' = now + step
        /\ th' = [th EXCEPT !.ticks = @ + 1]
        /\ UNCHANGED <<listings, listing_seq, scrape_history, history_seq, call, rt, run, par, rl, pg, bulk>>

\* A RequestThrottler is created, at the Unix time Epoch
ThInit ==
    /\ listings = <<>>
    /\ listing_seq = 0
    /\ scrape_history = <<>>
    /\ history_seq = 0
    /\ now = Epoch
    /\ call = NoCall
    /\ rt = RtIdle
    /\ run = RunIdle
    /\ par = ParIdle
    /\ pg = PgIdle
    /\ bulk = BulkIdle
    /\ rl = NewRateLimiter(1, 1, FALSE)
    /\ \E cap \in 1..MaxCap : th = NewThrottler(cap)

ThNext ==
    \/ ThShouldThrottle
    \/ ThRecordRequest
    \/ ThGetWaitTime
    \/ ThTick

SpecThrottle == ThInit /\ [][ThNext]_vars

----------------------------------------------------------------------------
(* The paginated discovery of FSBOComScraper (scrapers/fsbo_com.py),       *)
(* get_listing_urls_with_js, one results page at a time.                   *)

\* `max_pages = 20  # Limit to prevent infinite loops`
max_pages == 20

\* A loop without the page ceiling
LoopContinuesNoCeiling(p) == Len(p.listing_ids) < p.max_listings_from_url

\* `while len(listing_ids) < max_listings_from_url and page_num <= max_pages`
LoopContinues(p) == Len(p.listing_ids) < p.max_listings_from_url /\ p.page_num <= max_pages

\* The `for link in links` loop: each id not yet in listing_ids is appended,
\* and the loop ends when max_listings_from_url ids are collected
RECURSIVE extract_ids(_, _, _)
extract_ids(listing_ids, links, max_listings_from_url) ==
    IF links = <<>>
    THEN listing_ids
    ELSE IF \E k \in 1..Len(listing_ids) : listing_ids[k] = Head(links)
    THEN extract_ids(listing_ids, Tail(links), max_listings_from_url)
    ELSE IF Len(listing_ids) + 1 >= max_listings_from_url
    THEN Append(listing_ids, Head(links))
    ELSE extract_ids(Append(listing_ids, Head(links)), Tail(links),
                     max_listings_from_url)

\* The ids of the links of a page, given for each link whether its id was
\* seen before: ids are opaque, so an id seen before is taken to be the
\* first id and an id not seen before the next free number
RECURSIVE LinkIds(_, _)
LinkIds(seen, fresh) ==
    IF fresh = <<>>
    THEN <<>>
    ELSE IF Head(fresh)
    THEN <<seen + 1>> \o LinkIds(seen + 1, Tail(fresh))
    ELSE <<1>> \o LinkIds(IF seen = 0 THEN 1 ELSE seen, Tail(fresh))

\* The listing links of a results page: up to MaxLinks of them
PageLinks(listing_ids) ==
    {LinkIds(Len(listing_ids), fresh) : fresh \in UNION {[1..k -> BOOLEAN] : k \in 0..MaxLinks}}

\* get_listing_urls_with_js is called.  chromium.launch() and
\* browser.new_page() stand before the `try`: when one of them raises, the
\* error leaves the call.  page.goto() succeeds, or raises inside the `try`:
\* the outer handler logs it and the `finally` closes the browser.
PgCall ==
    \E max_listings_from_url \in 0..MaxWanted, begun \in {"ok", "launch_error", "new_page_error", "goto_error"} :
        /\ pg.pc \in {"idle", "returned", "raised"}
        /\ pg' = [PgIdle EXCEPT !.pc = CASE begun = "ok" -> "loop"
                                        [] begun = "goto_error" -> "closing"
                                        [] OTHER -> "raised",
                                !.max_listings_from_url = max_listings_from_url]
        /\ UNCHANGED <<storeVars, call, rt, run, par, rl, th, bulk>>

\* The loop condition is false: the loop is left for the `finally`
PgLoopExit ==
    /\ pg.pc = "loop"
    /\ ~LoopContinues(pg)
    /\ pg' = [pg EXCEPT !.pc = "closing"]
    /\ UNCHANGED <<storeVars, call, rt, run, par, rl, th, bulk>>

\* One page is processed: its ids are extracted; with no new id the loop
\* is left
PgPage ==
    \E links \in PageLinks(pg.listing_ids) :
        LET ids == extract_ids(pg.listing_ids, links, pg.max_listings_from_url)
            listings_found == Len(ids) - Len(pg.listing_ids)
        IN  /\ pg.pc = "loop"
            /\ LoopContinues(pg)
            /\ pg' = [pg EXCEPT !.listing_ids = ids,
                                !.pages = @ + 1,
                                !.found = listings_found,
                                !.pc = IF listings_found = 0 THEN "closing" ELSE "next"]
            /\ UNCHANGED <<storeVars, call, rt, run, par, rl, th, bulk>>

\* page.content() raises: the outer handler logs it and the loop is left
PgPageError ==
    /\ pg.pc = "loop"
    /\ LoopContinues(pg)
    /\ pg' = [pg EXCEPT !.pc = "closing"]
    /\ UNCHANGED <<storeVars, call, rt, run, par, rl, th, bulk>>

\* The "Next" button: clicked (page_num += 1), or disabled, missing or
\* failing, which leaves the loop
PgNextButton ==
    \E button \in {"clicked", "disabled", "missing", "error"} :
        /\ pg.pc = "next"
        /\ pg' = IF button = "clicked"
                 THEN [pg EXCEPT !.pc = "loop", !.page_num = @ + 1]
                 ELSE [pg EXCEPT !.pc = "closing"]
        /\ UNCHANGED <<storeVars, call, rt, run, par, rl, th, bulk>>

\* `finally: await browser.close()`, then `return listing_ids`; when
\* browser.close() raises, the error leaves the call and no list is returned
PgClose ==
    \E ok \in BOOLEAN :
        /\ pg.pc = "closing"
        /\ pg' = [pg EXCEPT !.pc = IF ok THEN "returned" ELSE "raised"]
        /\ UNCHANGED <<storeVars, call, rt, run, par, rl, th, bulk>>

PgStep == PgLoopExit \/ PgPage \/ PgPageError \/ PgNextButton \/ PgClose

PgNext ==
    \/ PgCall
    \/ PgLoopExit
    \/ PgPage
    \/ PgPageError
    \/ PgNextButton
    \/ PgClose

SpecPaging == StoreInit /\ [][PgNext]_vars

\* The event loop runs the coroutine on: every await of the call (page
\* content, button, click, browser.close()) returns or raises
SpecPagingFair == SpecPaging /\ WF_vars(PgStep)

----------------------------------------------------------------------------
(* The AddressNormalizer applied to states and streets.                    *)

\* States as they are written on listing pages: the full names of the table
\* and their codes, each in lower case, upper case and capitalized, and
\* some words that are no state
StateInputs ==
    UNION {{p[1], upper(p[1]), title(p[1]), p[2], lower(p[2]), title(p[2])} :
              p \in STATE_ABBREV}
    \cup {<<"t", "e", "x">>, <<"Z", "Z">>, <<>>}

\* Streets as they are written on listing pages: a house number, a word
\* that is a direction, a street type or neither, in lower case, upper case
\* or capitalized, and a street name
StreetWords ==
    UNION {{w, lower(w), upper(w)} : w \in Directions}
    \cup {<<"S", "t", "r", "e", "e", "t">>, <<"a", "v", "e">>, <<"B">>}

StreetInputs == {<<"1", " ">> \o w \o <<" ", "A">> : w \in StreetWords}

ApplyNormalizeState ==
    \E state \in StateInputs :
        /\ call' = [NoCall EXCEPT !.op = "normalize_state", !.arg = state,
                       !.out = normalize_state(state),
                       !.again = normalize_state(normalize_state(state))]
        /\ UNCHANGED <<storeVars, rt, run, par, rl, th, pg, bulk>>

ApplyNormalizeStreet ==
    \E street \in StreetInputs :
        /\ call' = [NoCall EXCEPT !.op = "normalize_street", !.arg = street,
                       !.out = normalize_street(street),
                       !.again = normalize_street(normalize_street(street))]
        /\ UNCHANGED <<storeVars, rt, run, par, rl, th, pg, bulk>>

NormalizerNext ==
    \/ ApplyNormalizeState
    \/ ApplyNormalizeStreet

SpecNormalizer == StoreInit /\ [][NormalizerNext]_vars

----------------------------------------------------------------------------
(* The scrape command (main.py) and the scraping workflow (scrapers/*.py). *)

\* ScraperContext.scrapers: the registered scrapers
ScraperNames == {"fsbo_com", "byowner_com", "realtyless_com", "beycome_com",
                 "zillow_fsbo", "craigslist_housing", "fsbo_landing"}

\* source_name each scraper passes to BaseScraper.__init__
SourceNameOf == [s \in ScraperNames |->
    CASE s = "fsbo_com" -> "FSBO.com"
      [] s = "byowner_com" -> "ByOwner.com"
      [] s = "realtyless_com" -> "RealtyLess.com"
      [] s = "beycome_com" -> "BeYcome.com"
      [] s = "zillow_fsbo" -> "Zillow FSBO"
      [] s = "craigslist_housing" -> "Craigslist Housing"
      [] s = "fsbo_landing" -> "FSBO Landing Pages"]

\* The scrapers that override scrape() with the Playwright workflow
\* (scrape / _scrape_async / get_page_content)
BrowserScrapers == {"byowner_com", "realtyless_com", "beycome_com",
                    "craigslist_housing"}

\* The sites of config/sites.json with "enabled": true; the model takes a
\* configuration that enables every registered scraper
EnabledSites == ScraperNames
is_site_enabled(s) == s \in EnabledSites

\* The number of URLs the get_listing_urls() of the scrapers with a fixed
\* list return: urls[:2] of zillow_fsbo and craigslist_housing, [scrape_url]
\* of the others
StaticTargetCount == [s \in ScraperNames \ {"fsbo_com", "fsbo_landing"} |->
    IF s \in {"zillow_fsbo", "craigslist_housing"} THEN 2 ELSE 1]

\* FSBOComScraper.get_listing_urls: the fallback listing ids
FallbackIdCount == 4
Min(a, b) == IF a < b THEN a ELSE b

TargetList(n) == [i \in 1..n |-> i]

\* Raw candidates an extractor can return (parse_listings)
Str_1astreet == <<"1", " ", "a", " ", "s", "t", "r", "e", "e", "t">>
Str_illinois == <<"i", "l", "l", "i", "n", "o", "i", "s">>
Str_62 == <<"6", "2">>
Str_2croad == <<"2", " ", "c", " ", "r", "o", "a", "d">>
Str_d == <<"d">>

RawA == Addr(Str_1astreet, Str_b, Str_illinois, Str_62701)
RawBad == Addr(Str_1astreet, Str_b, Str_illinois, Str_62)
RawB == Addr(Str_2croad, Str_d, Str_TX, Str_75001)

\* What parse_listings returns from a page: nothing, one candidate, or a
\* valid candidate followed by one whose zip is too short
ParseResults == {<<>>, <<RawA>>, <<RawBad>>, <<RawB>>, <<RawA, RawBad>>}

\* BaseScraper._normalize_listing: None (dropped) when the normalized
\* address is not valid; modelled as the sequence of the kept listings
normalize_listing(listing, url, source_name) ==
    LET n == normalize_address(listing.street, listing.city, listing.state,
                               listing.zip_code) IN
    IF ~is_valid_address(n.street, n.city, n.state, n.zip_code)
    THEN <<>>
    ELSE <<[street |-> n.street, city |-> n.city, state |-> n.state,
            zip_code |-> n.zip_code, listing_url |-> url,
            source_website |-> source_name, notes |-> NULL]>>

\* normalized = [self._normalize_listing(l) for l in all_listings]
\* normalized = [l for l in normalized if l is not None]
NormalizeAll(all_listings, source_name) ==
    Concat([i \in 1..Len(all_listings) |->
              normalize_listing(all_listings[i].cand, all_listings[i].url, source_name)])

\* The listing_url a raw candidate of target t can carry into
\* normalization.  The extractor of fsbo_com leaves it empty; those of
\* zillow_fsbo, craigslist_housing and byowner_com give it the href of the
\* card's link ("href") or, for a card without one, leave it empty; those of
\* realtyless_com and beycome_com build every candidate from a link;
\* FSBOLandingPageScraper.scrape fills the empty listing_url of its
\* candidates with the page's URL ("target").
CandUrl(s, t) ==
    CASE s = "fsbo_landing" -> {"target"}
      [] s = "fsbo_com" -> {""}
      [] s \in {"realtyless_com", "beycome_com"} -> {"href"}
      [] OTHER -> {"", "href"}

\* The candidates of a page with the listing_url each of them carries
Tagged(s, t, cands, urls) == [i \in 1..Len(cands) |-> [cand |-> cands[i], url |-> urls[i]]]

\* The rows of scrape_history written since the run began
RunRows == SubSeq(scrape_history, run.hist0 + 1, Len(scrape_history))

RunOver == run.pc \in {"done", "crashed"}

\* A command that records the session before it stores the listings
StageAfterRecordFirst(stage) ==
    CASE stage = "scrape" -> "record"
      [] stage = "record" -> "bulk"
      [] stage = "bulk" -> "close"
      [] stage = "close" -> "done"

\* The order of the statements of the try block of main.py: scrape(),
\* bulk_add_listings, record_scrape_session, close()
StageAfter(stage) ==
    CASE stage = "scrape" -> "bulk"
      [] stage = "bulk" -> "record"
      [] stage = "record" -> "close"
      [] stage = "close" -> "done"

\* `scrape --site s`: the one iteration of `for scraper_name in
\* scrapers_to_run` begins: the site is enabled and the scraper is
\* constructed, or its constructor raises
RunStart ==
    \E s \in ScraperNames, ok \in BOOLEAN :
        /\ run.pc = "idle"
        /\ is_site_enabled(s)
        /\ run' = [RunIdle EXCEPT !.pc = IF ok THEN "scrape" ELSE "except",
                                  !.scraper_name = s,
                                  !.hist0 = Len(scrape_history),
                                  !.fault = IF ok THEN "none" ELSE "construct"]
        /\ UNCHANGED <<storeVars, call, rt, par, rl, th, pg, bulk>>

\* scrape() of a browser scraper up to its loop: setup_browser() and the
\* fixed get_listing_urls(); a setup_browser() that raises is caught by
\* _scrape_async, which returns []
BrowserSetup ==
    \E ok \in BOOLEAN :
        /\ run.pc = "scrape"
        /\ run.scraper_name \in BrowserScrapers
        /\ run' = IF ok
                  THEN [run EXCEPT !.pc = "loop", !.idx = 1,
                            !.targets = TargetList(StaticTargetCount[run.scraper_name])]
                  ELSE [run EXCEPT !.pc = StageAfter("scrape"), !.scraped = <<>>]
        /\ UNCHANGED <<storeVars, call, rt, par, rl, th, pg, bulk>>

\* get_listing_urls() of a scraper with a fixed list, under BaseScraper.scrape
DiscoverStatic ==
    /\ run.pc = "scrape"
    /\ run.scraper_name = "zillow_fsbo"
    /\ run' = [run EXCEPT !.pc = "loop", !.idx = 1,
                          !.targets = TargetList(StaticTargetCount[run.scraper_name])]
    /\ UNCHANGED <<storeVars, call, rt, par, rl, th, pg, bulk>>

\* FSBOLandingPageScraper.get_listing_urls with landing_urls configured:
\* the configured pages of an allowed domain
DiscoverLandingUrls ==
    \E n \in 0..MaxTargets :
        /\ run.pc = "scrape"
        /\ run.scraper_name = "fsbo_landing"
        /\ run' = [run EXCEPT !.pc = "loop", !.idx = 1, !.targets = TargetList(n)]
        /\ UNCHANGED <<storeVars, call, rt, par, rl, th, pg, bulk>>

\* The scrape_url entries a configuration gives FSBOComScraper (a page
\* fetched over HTTP, or a 'search/results' page paginated with Playwright)
\* and the search queries it gives FSBOLandingPageScraper
DiscoveryPlans(s) ==
    IF s = "fsbo_com" THEN SeqsUpTo({"http", "js"}, MaxScrapeUrls)
    ELSE SeqsUpTo({"search"}, MaxScrapeUrls)

\* get_listing_urls() of FSBOComScraper, and of FSBOLandingPageScraper
\* without landing_urls (_discover_landing_urls), is entered: listing_ids
\* (discovered) is empty; cap is max_listings (max_search_results)
DiscoverBegin ==
    \E plan \in DiscoveryPlans(run.scraper_name), cap \in 0..MaxTargets :
        /\ run.pc = "scrape"
        /\ run.scraper_name \in {"fsbo_com", "fsbo_landing"}
        /\ run' = [run EXCEPT !.pc = "discover", !.disc = plan, !.cap = cap, !.found = 0]
        /\ UNCHANGED <<storeVars, call, rt, par, rl, th, pg, bulk>>

\* The loop over the scrape_urls (queries) is over, or is left because
\* enough ids (links) are collected: the targets are returned
DiscoverEnd ==
    /\ run.pc = "discover"
    /\ run.disc = <<>> \/ run.found >= run.cap
    /\ run' = [run EXCEPT !.pc = "loop", !.idx = 1, !.targets = TargetList(run.found),
                          !.disc = <<>>, !.cap = 0, !.found = 0]
    /\ UNCHANGED <<storeVars, call, rt, par, rl, th, pg, bulk>>

\* A 'search/results' scrape_url of FSBOComScraper:
\* asyncio.run(get_listing_urls_with_js(scrape_url, max_from_this_url))
\* returns at most max_from_this_url ids, which extend listing_ids, or
\* raises, and get_listing_urls goes on with its fallback ids.  get_page is
\* not involved.
DiscoverJs ==
    \E ok \in BOOLEAN, k \in 0..MaxTargets :
        /\ run.pc = "discover"
        /\ run.disc # <<>>
        /\ run.found < run.cap
        /\ Head(run.disc) = "js"
        /\ k <= run.cap - run.found
        /\ ~ok => k = 0
        /\ run' = IF ok
                  THEN [run EXCEPT !.found = @ + k, !.disc = Tail(@)]
                  ELSE [run EXCEPT !.pc = "loop", !.idx = 1, !.disc_failed = TRUE,
                              !.targets = TargetList(Min(FallbackIdCount, run.cap)),
                              !.disc = <<>>, !.cap = 0, !.found = 0]
        /\ UNCHANGED <<storeVars, call, rt, par, rl, th, pg, bulk>>

\* A scrape_url of FSBOComScraper fetched over HTTP, or a search of
\* _discover_landing_urls: get_page is entered
DiscoverFetch ==
    /\ run.pc = "discover"
    /\ run.disc # <<>>
    /\ run.found < run.cap
    /\ Head(run.disc) \in {"http", "search"}
    /\ rt.pc = "idle"
    /\ rt' = RetryEnter(RetryConfig(DefaultMaxRetries, DefaultBackoffFactor))
    /\ run' = [run EXCEPT !.pc = "discover_fetch"]
    /\ UNCHANGED <<storeVars, call, par, rl, th, pg, bulk>>

\* The discovery fetch returned: the new ids or links of the page are
\* collected, up to what max_listings (max_search_results) leaves room for.
\* parsed = FALSE: reading the page raises after k of them.
\* FSBOComScraper.get_listing_urls then goes on with its fallback ids;
\* _discover_landing_urls keeps what it has and goes on with its next query.
DiscoverFound ==
    \E k \in 0..MaxTargets, parsed \in BOOLEAN :
        /\ run.pc = "discover_fetch"
        /\ rt.pc = "returned"
        /\ k <= run.cap - run.found
        /\ rt' = RtIdle
        /\ run' = IF parsed
                  THEN [run EXCEPT !.pc = "discover", !.found = @ + k, !.disc = Tail(@)]
                  ELSE IF run.scraper_name = "fsbo_com"
                  THEN [run EXCEPT !.pc = "loop", !.idx = 1, !.disc_failed = TRUE,
                              !.targets = TargetList(Min(FallbackIdCount, run.cap)),
                              !.disc = <<>>, !.cap = 0, !.found = 0]
                  ELSE [run EXCEPT !.pc = "discover", !.disc_failed = TRUE,
                              !.found = @ + k, !.disc = Tail(@)]
        /\ UNCHANGED <<storeVars, call, par, rl, th, pg, bulk>>

\* The discovery fetch raised.  FSBOComScraper.get_listing_urls catches the
\* error and goes on with its fallback ids (cut to max_listings);
\* _discover_landing_urls catches it and goes on with its next query.
DiscoverFailed ==
    /\ run.pc = "discover_fetch"
    /\ rt.pc = "raised"
    /\ rt' = RtIdle
    /\ run' = IF run.scraper_name = "fsbo_com"
              THEN [run EXCEPT !.pc = "loop", !.idx = 1, !.disc_failed = TRUE,
                          !.targets = TargetList(Min(FallbackIdCount, run.cap)),
                          !.disc = <<>>, !.cap = 0, !.found = 0]
              ELSE [run EXCEPT !.pc = "discover", !.disc_failed = TRUE, !.disc = Tail(@)]
    /\ UNCHANGED <<storeVars, call, par, rl, th, pg, bulk>>

\* `except Exception as e: ... continue` in the loop over the targets: the
\* failure of one target is logged and the loop goes on with the next one
TargetFailed(r, outcome) ==
    [r EXCEPT !.pc = "loop", !.idx = @ + 1,
              !.log = Append(@, [target |-> r.idx, outcome |-> outcome, cands |-> <<>>])]

\* `for url in listing_urls` of BaseScraper.scrape and of
\* FSBOLandingPageScraper.scrape: get_page(url) is entered
FetchBegin ==
    /\ run.pc = "loop"
    /\ run.scraper_name \notin BrowserScrapers
    /\ run.idx <= Len(run.targets)
    /\ rt.pc = "idle"
    /\ rt' = RetryEnter(RetryConfig(DefaultMaxRetries, DefaultBackoffFactor))
    /\ run' = [run EXCEPT !.pc = "fetching"]
    /\ UNCHANGED <<storeVars, call, par, rl, th, pg, bulk>>

\* get_page returned: parse_listings extracts the page's candidates, which
\* extend all_listings
FetchParsed ==
    \E cands \in ParseResults :
      \E urls \in [1..Len(cands) -> CandUrl(run.scraper_name, run.idx)] :
        /\ run.pc = "fetching"
        /\ rt.pc = "returned"
        /\ rt' = RtIdle
        /\ run' = [run EXCEPT
              !.pc = "loop", !.idx = @ + 1,
              !.all_listings = @ \o Tagged(run.scraper_name, run.idx, cands, urls),
              !.log = Append(@, [target |-> run.idx, outcome |-> "ok", cands |-> cands])]
        /\ UNCHANGED <<storeVars, call, par, rl, th, pg, bulk>>

\* get_page returned and parse_listings raises: `except Exception: continue`
FetchParseError ==
    /\ run.pc = "fetching"
    /\ rt.pc = "returned"
    /\ rt' = RtIdle
    /\ run' = TargetFailed(run, "parse_error")
    /\ UNCHANGED <<storeVars, call, par, rl, th, pg, bulk>>

\* get_page raised after its retries: `except Exception: continue`
FetchError ==
    /\ run.pc = "fetching"
    /\ rt.pc = "raised"
    /\ rt' = RtIdle
    /\ run' = TargetFailed(run, "fetch_error")
    /\ UNCHANGED <<storeVars, call, par, rl, th, pg, bulk>>

\* One iteration of the loop of _scrape_async: get_page_content returns the
\* page or, on any error, ""; parse_listings extracts candidates or raises.
\* get_page_content loads the page with page.goto(); it does not go through
\* get_page, so neither rate_limiter.wait() nor the retry wrapper is
\* involved (bare_fetches counts these page loads).  loaded = FALSE:
\* context.new_page() raised and page.goto() was never called.
BrowserTarget ==
    \E outcome \in {"ok", "fetch_error", "parse_error"}, loaded \in BOOLEAN, cands \in ParseResults :
      \E urls \in [1..Len(cands) -> CandUrl(run.scraper_name, run.idx)] :
        /\ run.pc = "loop"
        /\ run.scraper_name \in BrowserScrapers
        /\ run.idx <= Len(run.targets)
        /\ outcome # "ok" => cands = <<>>
        /\ outcome # "fetch_error" => loaded
        /\ LET loads == IF loaded THEN 1 ELSE 0 IN
           run' = IF outcome = "ok"
                  THEN [run EXCEPT
                          !.idx = @ + 1,
                          !.bare_fetches = @ + loads,
                          !.all_listings = @ \o Tagged(run.scraper_name, run.idx, cands, urls),
                          !.log = Append(@, [target |-> run.idx, outcome |-> "ok",
                                             cands |-> cands])]
                  ELSE [TargetFailed(run, outcome) EXCEPT !.bare_fetches = @ + loads]
        /\ UNCHANGED <<storeVars, call, rt, par, rl, th, pg, bulk>>

\* The loop is over: the candidates are normalized and filtered, and
\* scrape() returns the valid listings.  _scrape_async of a browser scraper
\* runs cleanup_browser() in its `finally`: when that raises, the exception
\* replaces the list being returned, scrape() catches it and returns [].
ScrapeReturn ==
    \E cleanup_ok \in BOOLEAN :
        /\ run.pc = "loop"
        /\ run.idx > Len(run.targets)
        /\ ~cleanup_ok => run.scraper_name \in BrowserScrapers
        /\ run' = [run EXCEPT !.pc = StageAfter("scrape"),
                     !.cleanup_failed = ~cleanup_ok,
                     !.scraped = IF cleanup_ok
                                 THEN NormalizeAll(run.all_listings,
                                                   SourceNameOf[run.scraper_name])
                                 ELSE <<>>]
        /\ UNCHANGED <<storeVars, call, rt, par, rl, th, pg, bulk>>

\* One iteration of the loop of bulk_add_listings(listings) called by the
\* command: add_listing of the next listing on a connection of its own, at
\* the second the clock shows, then the count.  An add_listing that raises
\* (sqlite3.OperationalError) ends the call with the earlier inserts
\* committed.
RunBulkIteration ==
    \E db_error \in BOOLEAN :
        LET r == add_listing(listings, listing_seq, run.scraped[run.bi], now, db_error)
            c == bulk_count(run.new_count, run.dup_count, r.ret)
        IN /\ run.pc = "bulk"
           /\ run.bi <= Len(run.scraped)
           /\ listings' = r.listings
           /\ listing_seq' = r.seq
           /\ run' = IF r.raised
                     THEN [run EXCEPT !.pc = "except", !.fault = "bulk_add_listings"]
                     ELSE [run EXCEPT !.bi = @ + 1, !.new_count = c[1], !.dup_count = c[2],
                                      !.stored = IF r.ret # None THEN @ \cup {r.ret} ELSE @]
           /\ UNCHANGED <<scrape_history, history_seq, now, call, rt, par, rl, th, pg, bulk>>

\* The batch is exhausted: bulk_add_listings returns (new_count,
\* duplicate_count)
RunBulkReturn ==
    /\ run.pc = "bulk"
    /\ run.bi > Len(run.scraped)
    /\ run' = [run EXCEPT !.pc = StageAfter("bulk")]
    /\ UNCHANGED <<storeVars, call, rt, par, rl, th, pg, bulk>>

\* new_count, dup_count = context.db.bulk_add_listings(listings): the
\* clock and the other connections come between two iterations
RunBulkAdd ==
    \/ RunBulkIteration
    \/ RunBulkReturn

\* The listing another connection stores while the run goes on: the
\* address of the candidate RawA as another source has it
OtherListings == {Listing(AddrA, "url1", "Zillow FSBO")}

\* Another connection (another command on the same database file) inserts
\* a listing while the run goes on
RunOtherInsert ==
    \E l \in OtherListings :
        LET r == add_listing(listings, listing_seq, l, now, FALSE) IN
        /\ r.ret # None
        /\ listings' = r.listings
        /\ listing_seq' = r.seq
        /\ UNCHANGED <<scrape_history, history_seq, now, call, rt, run, par, rl, th, pg, bulk>>

\* What main.py passes for errors= when it records a completed session
CompletedErrors(log) == 0

\* A session that counts the raw candidates instead
CompletedFoundRaw(scraped, all_listings) == Len(all_listings)

\* What main.py passes for listings_found= when it records a completed session
CompletedFound(scraped, all_listings) == Len(scraped)

\* context.db.record_scrape_session(..., status='completed')
RunRecordCompleted ==
    \E db_error \in BOOLEAN :
        LET r == record_scrape_session(scrape_history, history_seq,
                    SourceNameOf[run.scraper_name],
                    CompletedFound(run.scraped, run.all_listings),
                    run.new_count, run.dup_count,
                    CompletedErrors(run.log), NULL, "completed", now, db_error) IN
        /\ run.pc = "record"
        /\ scrape_history' = r.history
        /\ history_seq' = r.seq
        /\ run' = IF r.raised
                  THEN [run EXCEPT !.pc = "except", !.fault = "record_scrape_session"]
                  ELSE [run EXCEPT !.pc = StageAfter("record")]
        /\ UNCHANGED <<listings, listing_seq, now, call, rt, par, rl, th, pg, bulk>>

\* scraper.close(): the session is closed, or close() raises
RunClose ==
    \E ok \in BOOLEAN :
        /\ run.pc = "close"
        /\ run' = IF ok
                  THEN [run EXCEPT !.pc = StageAfter("close"), !.closed = TRUE]
                  ELSE [run EXCEPT !.pc = "except", !.fault = "close"]
        /\ UNCHANGED <<storeVars, call, rt, par, rl, th, pg, bulk>>

\* `except Exception as e`: the failed session is recorded under the
\* scraper's registry name; when this write raises too, the error leaves
\* the command
RunExcept ==
    \E db_error \in BOOLEAN :
        LET r == record_scrape_session(scrape_history, history_seq,
                    run.scraper_name, 0, 0, 0, 1, run.fault, "failed",
                    now, db_error) IN
        /\ run.pc = "except"
        /\ scrape_history' = r.history
        /\ history_seq' = r.seq
        /\ run' = [run EXCEPT !.pc = IF r.raised THEN "crashed" ELSE "done"]
        /\ UNCHANGED <<listings, listing_seq, now, call, rt, par, rl, th, pg, bulk>>

RunRetryStep ==
    /\ run.pc \in {"discover_fetch", "fetching"}
    /\ \/ RetryAttemptOk
       \/ RetryAttemptFail
       \/ RetrySleep
    /\ UNCHANGED <<storeVars, call, run, par, rl, th, pg, bulk>>

RunInit == StoreInit

RunNext ==
    \/ RunStart
    \/ BrowserSetup
    \/ DiscoverStatic
    \/ DiscoverLandingUrls
    \/ DiscoverBegin
    \/ DiscoverEnd
    \/ DiscoverJs
    \/ DiscoverFetch
    \/ DiscoverFound
    \/ DiscoverFailed
    \/ FetchBegin
    \/ FetchParsed
    \/ FetchParseError
    \/ FetchError
    \/ BrowserTarget
    \/ ScrapeReturn
    \/ RunBulkAdd
    \/ RunRecordCompleted
    \/ RunClose
    \/ RunExcept
    \/ RunRetryStep
    \/ RunOtherInsert
    \/ Tick

SpecRun == RunInit /\ [][RunNext]_vars

----------------------------------------------------------------------------
(* Source runs inserting into the shared store in parallel: each           *)
(* add_listing opens its own connection (get_connection), its INSERT takes *)
(* the database's write lock inside the connection's transaction, and the  *)
(* commit at the end of the `with` block publishes the row and releases    *)
(* the lock.  A connection sees the committed rows.  An INSERT that finds  *)
(* the lock held by another connection waits for it, for sqlite3's busy    *)
(* timeout at most (connect() is given none: 5 seconds).                   *)

\* sqlite3.connect(str(self.db_path)) is given no timeout: an INSERT waits
\* for the write lock for sqlite3's default of 5 seconds
BusyTimeout == 5

\* A database without the write lock: every INSERT proceeds at once
NoWriteLock(lock, w) == TRUE

\* sqlite3: an INSERT proceeds when no other connection holds the write
\* lock
LockFree(lock, w) == lock = 0 \/ lock = w

\* add_listing is called on worker w's connection
ParCall(w) ==
    \E l \in ListingPool :
        /\ par.w[w].pc = "idle"
        /\ par' = [par EXCEPT !.w[w] = [WorkerIdle EXCEPT !.pc = "insert",
                                          !.listing = l,
                                          !.seen = Hashes(listings)]]
        /\ UNCHANGED <<storeVars, call, rt, run, rl, th, pg, bulk>>

\* cursor.execute(INSERT ...) on worker w's connection: the row is written
\* in w's transaction with the CURRENT_TIMESTAMP of the second in which the
\* INSERT gets the write lock, or the UNIQUE constraint rejects it
\* (IntegrityError, caught: None).  While another connection holds the
\* write lock the INSERT waits (since: the second in which it began to),
\* and when it has waited for the busy timeout it raises
\* sqlite3.OperationalError (database is locked), which add_listing does
\* not catch: get_connection rolls back, closes and raises.
ParInsert(w) ==
    LET r == add_listing(listings, listing_seq, par.w[w].listing, now, FALSE) IN
    /\ par.w[w].pc \in {"insert", "busy"}
    /\ \/ /\ LockFree(par.lock, w)
          /\ par' = [par EXCEPT !.lock = w,
                                !.w[w].pc = "commit",
                                !.w[w].since = 0,
                                !.w[w].pending = SubSeq(r.listings, Len(listings) + 1,
                                                        Len(r.listings)),
                                !.w[w].ret = r.ret]
       \/ /\ ~LockFree(par.lock, w)
          /\ par.w[w].pc = "insert"
          /\ par' = [par EXCEPT !.w[w].pc = "busy", !.w[w].since = now]
       \/ /\ ~LockFree(par.lock, w)
          /\ par.w[w].pc = "busy"
          /\ now - par.w[w].since >= BusyTimeout
          /\ par' = [par EXCEPT !.w[w].pc = "done",
                                !.w[w].since = 0,
                                !.w[w].raised = TRUE]
    /\ UNCHANGED <<storeVars, call, rt, run, rl, th, pg, bulk>>

\* conn.commit() and conn.close() at the end of the `with` block, after
\* which add_listing returns
ParCommit(w) ==
    /\ par.w[w].pc = "commit"
    /\ listings' = listings \o par.w[w].pending
    /\ listing_seq' = listing_seq + Len(par.w[w].pending)
    /\ par' = [par EXCEPT !.lock = IF par.lock = w THEN 0 ELSE @,
                          !.w[w].pc = "done",
                          !.w[w].pending = <<>>,
                          !.won = IF par.w[w].ret # None
                                  THEN Append(@, par.w[w].pending[1].listing_hash)
                                  ELSE @]
    /\ UNCHANGED <<scrape_history, history_seq, now, call, rt, run, rl, th, pg, bulk>>

\* The caller goes on to its next listing
ParReturn(w) ==
    /\ par.w[w].pc = "done"
    /\ par' = [par EXCEPT !.w[w] = WorkerIdle]
    /\ UNCHANGED <<storeVars, call, rt, run, rl, th, pg, bulk>>

\* A second passes while the connections work
ParTick ==
    /\ now < MaxParTime
    /\ now' = now + 1
    /\ UNCHANGED <<listings, listing_seq, scrape_history, history_seq, call, rt, run, par, rl, th, pg, bulk>>

ParInit == StoreInit

ParNext ==
    \/ \E w \in Workers :
          \/ ParCall(w)
          \/ ParInsert(w)
          \/ ParCommit(w)
          \/ ParReturn(w)
    \/ ParTick

SpecPar == ParInit /\ [][ParNext]_vars

----------------------------------------------------------------------------
(* The retry wrapper driven by a caller, one wrapped call after another.   *)

BackoffFactors == {1, 2, 3}

RetryInit ==
    /\ StoreInit

\* A decorated function is called
RetryCall ==
    \E m \in 0..MaxRetriesCfg, b \in BackoffFactors :
        /\ rt.pc \in {"idle", "returned", "raised"}
        /\ rt' = RetryEnter(RetryConfig(m, b))
        /\ UNCHANGED <<storeVars, call, run, par, rl, th, pg, bulk>>

RetryStep ==
    /\ \/ RetryAttemptOk
       \/ RetryAttemptFail
       \/ RetrySleep
    /\ UNCHANGED <<storeVars, call, run, par, rl, th, pg, bulk>>

RetryNext ==
    \/ RetryCall
    \/ RetryStep

SpecRetry == RetryInit /\ [][RetryNext]_vars

\* Each attempt terminates and each sleep ends
SpecRetryFair == SpecRetry /\ WF_vars(RetryStep)

----------------------------------------------------------------------------
(* Raw candidates on their way into the store: BaseScraper.scrape         *)
(* normalizes each candidate and drops it when its address is not valid,   *)
(* and bulk_add_listings hands each kept one to add_listing.               *)

\* Raw candidates as parse_listings extracts them: an address, the same
\* address in another letter case and with surrounding spaces, a different
\* street and city whose concatenation is the same, a state that is no
\* state, a 2-letter state, a short zip and a 9-digit zip; two of them
\* also in capitals and with spaces around street, city and state
IngestPool ==
    {RawA,
     Addr(<<" ", "1", " ", "A", " ", "S", "T", "R", "E", "E", "T", " ">>,
          <<"B", " ">>, <<" ", "I", "L", "L", "I", "N", "O", "I", "S">>, Str_62701),
     Addr(<<"1", " ", "a", " ", "s">>, <<"t", "b">>, Str_il, Str_62701),
     Addr(Str_2croad, Str_d, <<"t", "e", "x">>, Str_75001),
     RawB,
     RawBad,
     Addr(Str_1astreet, Str_b, Str_il,
          <<"6", "2", "7", "0", "1", "1", "2", "3", "4">>)}
    \cup {Addr(upper(a.street), upper(a.city), upper(a.state), a.zip_code) :
              a \in {RawA, RawB}}
    \cup {Addr(<<" ">> \o a.street, a.city \o <<" ", " ">>, <<" ">> \o a.state \o <<" ">>,
                a.zip_code) : a \in {RawA, RawB}}

\* self._normalize_listing(listing) of each candidate of the pool
Normalized == [raw \in IngestPool |-> normalize_listing(raw, "", "FSBO.com")]

IngestCandidate ==
    \E raw \in IngestPool :
        LET kept == Normalized[raw] IN
        IF kept = <<>>
        THEN /\ call' = [NoCall EXCEPT !.op = "invalid",
                                       !.listing = Listing(raw, "", "FSBO.com")]
             /\ UNCHANGED <<storeVars, rt, run, par, rl, th, pg, bulk>>
        ELSE LET r == add_listing(listings, listing_seq, kept[1], now, FALSE) IN
             /\ r.seq <= MaxListingSeq
             /\ listings' = r.listings
             /\ listing_seq' = r.seq
             /\ call' = [NoCall EXCEPT !.op = "add_listing",
                                       !.listing = Listing(raw, "", "FSBO.com"),
                                       !.ret = r.ret]
             /\ UNCHANGED <<scrape_history, history_seq, now, rt, run, par, rl, th, pg, bulk>>

IngestNext ==
    \/ IngestCandidate
    \/ StoreClearAllData
    \/ Tick

SpecIngest == StoreInit /\ [][IngestNext]_vars

----------------------------------------------------------------------------
(* Properties of the listing store.                                        *)

HashOf(l) == generate_hash(l.street, l.city, l.state, l.zip_code)

UniqueHashes(tbl) ==
    \A i, j \in 1..Len(tbl) : tbl[i].listing_hash = tbl[j].listing_hash => i = j

\* A step of add_listing (called directly, or by the loop of
\* bulk_add_listings; not a tick of the clock after one) on an address
\* whose fingerprint is stored
DuplicateAddStep ==
    /\ call'.op = "add_listing"
    /\ now' = now
    /\ HashOf(call'.listing) \in Hashes(listings)

\* C2: after any sequence of add_listing, bulk_add_listings,
\* mark_as_exported and clear_all_data no two rows of the listings table
\* have the same fingerprint, and add_listing of an address whose
\* fingerprint is already stored returns None, raises nothing and leaves
\* the table as it was.
C2_UniqueFingerprints ==
    /\ [](UniqueHashes(listings))
    /\ [][DuplicateAddStep =>
            /\ call'.ret = None
            /\ ~call'.raised
            /\ listings' = listings
            /\ listing_seq' = listing_seq]_vars

\* add_listing has returned None for a spelling of a stored address that
\* differs from the stored one in case only
C2_Witness ==
    /\ call.op = "add_listing"
    /\ call.ret = None
    /\ ~call.raised
    /\ Len(listings) = 2
    /\ \E i \in 1..Len(listings) :
          /\ listings[i].listing_hash = HashOf(call.listing)
          /\ listings[i].street # call.listing.street

\* The fingerprints of a batch
BatchHashes(batch) == {HashOf(batch[i]) : i \in 1..Len(batch)}

\* The step in which bulk_add_listings returns
BulkReturns == bulk.pc = "loop" /\ bulk'.pc = "idle"

\* C4: bulk_add_listings(batch) returns (new, dup) where new is the number
\* of distinct fingerprints of the batch that were not stored before the
\* call and dup = len(batch) - new.
C4_BulkCounts ==
    [][BulkReturns =>
          LET new == Cardinality(BatchHashes(call'.batch) \ bulk.before) IN
          /\ ~call'.raised
          /\ call'.counts = <<new, Len(call'.batch) - new>>]_vars

\* C4 (as the code has it): bulk_add_listings(batch) returns (new, dup)
\* with new + dup = len(batch); when no other connection inserts or deletes
\* listings during the call, new is the number of distinct fingerprints of
\* the batch that were not stored before the call, and the call has added
\* exactly those.
C4_BulkCountsUndisturbed ==
    [][BulkReturns =>
          LET new == Cardinality(BatchHashes(call'.batch) \ bulk.before) IN
          /\ ~call'.raised
          /\ call'.batch = bulk.batch
          /\ call'.counts[1] + call'.counts[2] = Len(call'.batch)
          /\ (bulk.alone /\ Stamp(listings, listing_seq) = bulk.last) =>
                /\ call'.counts = <<new, Len(call'.batch) - new>>
                /\ Cardinality(Hashes(listings)) = Cardinality(bulk.before) + new
                /\ Hashes(listings) = bulk.before \cup BatchHashes(call'.batch)]_vars

\* The batch [A, A, B] on a store that held neither A nor B returned (2, 1):
\* the two rows are the first the store was given, no other connection
\* having inserted one
C4_Witness ==
    /\ call.op = "bulk_add_listings"
    /\ bulk.pc = "idle"
    /\ Len(call.batch) = 3
    /\ HashOf(call.batch[1]) = HashOf(call.batch[2])
    /\ HashOf(call.batch[3]) # HashOf(call.batch[1])
    /\ call.counts = <<2, 1>>
    /\ Len(listings) = 2
    /\ listing_seq = 2
    /\ listings[1].id = 1
    /\ listings[1].listing_hash = HashOf(call.batch[1])
    /\ listings[2].listing_hash = HashOf(call.batch[3])

----------------------------------------------------------------------------
(* Properties of parallel inserts.                                         *)

\* How many times x occurs in sequence s
Count(s, x) == Cardinality({i \in 1..Len(s) : s[i] = x})

RowsWithHash(tbl, h) == Cardinality({i \in 1..Len(tbl) : tbl[i].listing_hash = h})

\* C3: when source runs insert the same address in parallel, in every
\* interleaving exactly one add_listing returns a new id, every other one
\* returns None, and exactly one row for the address exists afterwards.
C3_ParallelInsertOnce ==
    /\ UniqueHashes(listings)
    /\ \A l \in ListingPool :
          /\ Count(par.won, HashOf(l)) = RowsWithHash(listings, HashOf(l))
          /\ Count(par.won, HashOf(l)) <= 1
    /\ \A w \in Workers :
          par.w[w].pc = "done" =>
              /\ ~par.w[w].raised
              /\ RowsWithHash(listings, HashOf(par.w[w].listing)) = 1
              /\ par.w[w].ret # None =>
                    \E i \in 1..Len(listings) :
                        /\ listings[i].id = par.w[w].ret
                        /\ listings[i].listing_hash = HashOf(par.w[w].listing)
    /\ \A w1, w2 \in Workers :
          (/\ w1 # w2
           /\ par.w[w1].pc = "done"
           /\ par.w[w2].pc = "done"
           /\ HashOf(par.w[w1].listing) = HashOf(par.w[w2].listing))
          => (par.w[w1].ret = None \/ par.w[w2].ret = None)

\* Two add_listing calls of the same address, both begun when the store did
\* not hold it, have returned: one an id, the other None
C3_Witness ==
    \E w1, w2 \in Workers :
        /\ w1 # w2
        /\ par.w[w1].pc = "done"
        /\ par.w[w2].pc = "done"
        /\ HashOf(par.w[w1].listing) = HashOf(par.w[w2].listing)
        /\ HashOf(par.w[w1].listing) \notin par.w[w1].seen
        /\ HashOf(par.w[w2].listing) \notin par.w[w2].seen
        /\ par.w[w1].ret # None
        /\ par.w[w2].ret = None
        /\ RowsWithHash(listings, HashOf(par.w[w1].listing)) = 1

----------------------------------------------------------------------------
(* Properties of a run of the scrape command.                              *)

\* C1: exactly one scrape_history row is written for a run, whether it
\* completes or raises at any step: never zero rows and never two.
C1_ExactlyOneRowPerRun == RunOver => Len(RunRows) = 1

FailedTargets == {i \in 1..Len(run.log) : run.log[i].outcome # "ok"}

\* The candidates parse_listings returned from the targets fetched
\* successfully, in the order of the targets
ExtractedCandidates ==
    Concat([i \in 1..Len(run.log) |-> run.log[i].cands])

AfterLoop == run.pc \in {"bulk", "record", "close", "except", "done", "crashed"}

\* C5: when fetching or parsing one target raises, the run does not abort:
\* every later target is still fetched and parsed, the candidates of the
\* other targets are kept (scrape() returns their normalization), and the
\* session is recorded as completed.
C5_TargetFailureIsolated ==
    FailedTargets # {} =>
        /\ run.fault \in {"none", "bulk_add_listings", "record_scrape_session", "close"}
        /\ \A i \in 1..Len(run.log) : run.log[i].target = i
        /\ Len(run.log) <= Len(run.targets)
        /\ AfterLoop => Len(run.log) = Len(run.targets)
        /\ [i \in 1..Len(run.all_listings) |-> run.all_listings[i].cand]
              = ExtractedCandidates
        /\ AfterLoop =>
              run.scraped = NormalizeAll(run.all_listings, SourceNameOf[run.scraper_name])
        /\ (run.pc \in {"close", "done"} /\ run.fault = "none") =>
              /\ Len(RunRows) = 1
              /\ RunRows[1].status = "completed"
              /\ RunRows[1].listings_new = Cardinality(run.stored)

\* C6: for every registered source, when target discovery fails, no target
\* is fetched afterwards and the run's session has status failed, an error
\* message and listings_found = listings_new = listings_duplicates = 0.
C6_DiscoveryFailureFailsRun ==
    run.disc_failed =>
        /\ run.pc # "fetching"
        /\ run.log = <<>>
        /\ RunOver =>
              /\ Len(RunRows) = 1
              /\ RunRows[1].status = "failed"
              /\ RunRows[1].error_message # NULL
              /\ RunRows[1].listings_found = 0
              /\ RunRows[1].listings_new = 0
              /\ RunRows[1].listings_duplicates = 0

\* C7: in a run where a target fails to fetch after its retries while
\* discovery succeeded, the session written for the run has errors >= 1
\* and status completed.
C7_FetchFailureCounted ==
    (/\ ~run.disc_failed
     /\ \E i \in 1..Len(run.log) : run.log[i].outcome = "fetch_error")
    => \A k \in 1..Len(RunRows) :
          RunRows[k].status = "completed" => RunRows[k].errors >= 1

\* C8: the listings_found of a completed session equals the number of raw
\* candidates parse_listings returned from the targets fetched
\* successfully.
C8_FoundIsRawCount ==
    \A k \in 1..Len(RunRows) :
        RunRows[k].status = "completed" =>
            RunRows[k].listings_found = Len(ExtractedCandidates)

\* The candidates whose normalized address is valid
ValidCandidates ==
    {i \in 1..Len(ExtractedCandidates) :
        LET c == ExtractedCandidates[i]
            n == normalize_address(c.street, c.city, c.state, c.zip_code) IN
        is_valid_address(n.street, n.city, n.state, n.zip_code)}

\* C8 (as the code has it): the listings_found of a completed session is
\* the number of listings scrape() returned: the number of the candidates,
\* returned by parse_listings from the targets fetched successfully, that
\* pass normalization and the validity filter, or 0 when the browser
\* cleanup of a Playwright scraper raised; it equals listings_new +
\* listings_duplicates.
C8_FoundIsValidCount ==
    \A k \in 1..Len(RunRows) :
        RunRows[k].status = "completed" =>
            /\ RunRows[k].listings_found =
                   IF run.cleanup_failed THEN 0 ELSE Cardinality(ValidCandidates)
            /\ RunRows[k].listings_found =
                   RunRows[k].listings_new + RunRows[k].listings_duplicates

\* A completed session of a run that extracted a valid and an invalid
\* candidate
C8_Witness ==
    /\ run.pc = "done"
    /\ Len(RunRows) = 1
    /\ RunRows[1].status = "completed"
    /\ RunRows[1].listings_found = 1
    /\ Len(ExtractedCandidates) = 2

----------------------------------------------------------------------------
(* Properties of the retry wrapper.                                        *)

\* The sleeps so far are backoff_factor^0, backoff_factor^1, ...
BackoffSleeps ==
    /\ Len(rt.sleeps) > 0 => rt.sleeps[1] = 1
    /\ \A i \in 1..(Len(rt.sleeps) - 1) :
          rt.sleeps[i + 1] = rt.sleeps[i] * rt.config.backoff_factor

C9_Safety ==
    /\ rt.calls <= rt.config.max_retries + 1
    /\ BackoffSleeps
    /\ rt.pc = "try" => rt.calls = rt.attempt /\ Len(rt.sleeps) = rt.calls
    /\ rt.pc = "sleep" =>
          /\ Len(rt.sleeps) = rt.calls - 1
          /\ rt.calls <= rt.config.max_retries
          /\ rt.last_exception \in Failures
    /\ rt.pc = "returned" => Len(rt.sleeps) = rt.calls - 1
    /\ rt.pc = "raised" =>
          /\ rt.calls = rt.config.max_retries + 1
          /\ Len(rt.sleeps) = rt.config.max_retries
          /\ rt.last_exception \in Failures

\* Once the wrapper has returned or raised, the operation is not invoked
\* again for that call: the next step is a new call
C9_NoFurtherAttempt ==
    rt.pc \in {"returned", "raised"} => (rt'.pc = "try" /\ rt'.calls = 0)

\* The failure of an attempt is the one the wrapper holds as the last
C9_LastFailure ==
    (rt.pc = "try" /\ rt'.pc \in {"sleep", "raised"}) =>
        /\ rt'.calls = rt.calls + 1
        /\ rt'.last_exception \in Failures

\* C9: a call wrapped by retry_with_backoff invokes the operation at most
\* max_retries + 1 times, returns the first success without further
\* attempts, sleeps backoff_factor^attempt after each failed attempt that
\* is followed by another, raises the last failure when the last attempt
\* fails, and always terminates.
C9_RetryBounded ==
    /\ []C9_Safety
    /\ [][C9_NoFurtherAttempt /\ C9_LastFailure]_vars
    /\ (rt.pc \in {"try", "sleep"}) ~> (rt.pc \in {"returned", "raised"})

\* A call with max_retries = 2 and backoff_factor = 3 has raised after
\* three attempts and sleeps of 1 and 3 seconds
C9_Witness ==
    /\ rt.pc = "raised"
    /\ rt.config.max_retries = 2
    /\ rt.config.backoff_factor = 3
    /\ rt.calls = 3
    /\ rt.sleeps = <<1, 3>>

\* C10: when an attempt fails with a non-retryable failure, the wrapper
\* propagates it at once: no back-off sleep and no further attempt follows
\* it, and a first attempt failing so is the only invocation.
C10_NonRetryablePropagates ==
    (rt.last_exception # NoException /\ ~Retryable(rt.config, rt.last_exception))
    => /\ rt.pc = "raised"
       /\ Len(rt.sleeps) < rt.calls

----------------------------------------------------------------------------
(* Properties of the politeness and of the ordering of a run.              *)

\* C11: for every registered source, every fetch of a target is made by
\* get_page, that is, preceded by wait() on the source's RateLimiter and
\* inside the retry wrapper: no page is loaded outside of it.
C11_EveryFetchWaits == run.bare_fetches = 0

\* A listing insert of the run happens after the run's session is written
InsertAfterSession == Len(RunRows) >= 1 /\ run'.stored # run.stored

\* C12: within one run the session record is written only after every
\* listing insert of the run's bulk_add_listings has finished; no listing
\* insert of the run happens after the session record is written.
C12_SessionAfterInserts ==
    /\ [](Len(RunRows) >= 1 => run.pc \in {"close", "except", "done", "crashed"})
    /\ [][~InsertAfterSession]_vars

\* A run that stored two listings and then wrote its completed session
C12_Witness ==
    /\ run.pc = "close"
    /\ Len(listings) = 2
    /\ Len(RunRows) = 1
    /\ RunRows[1].status = "completed"
    /\ RunRows[1].listings_new = 2

\* C15: the HTTP session acquired for a run is released on every exit path
\* of the run: close() has been called by the time the run ends, also when
\* scrape(), bulk_add_listings or record_scrape_session raises.
C15_ClosedOnEveryExit ==
    (RunOver /\ run.fault \notin {"construct", "close"}) => run.closed

----------------------------------------------------------------------------
(* Frame properties of the listing store.                                  *)

\* The fields of a listing row that are fixed at its creation
Fixed(row) ==
    <<row.id, row.street, row.city, row.state, row.zip_code, row.listing_url,
      row.source_website, row.scraped_at, row.listing_hash, row.notes>>

\* What one step of the store may do to the rows that exist before it
RowsFramed ==
    /\ \A id \in Ids(listings) \cap Ids(listings') :
          /\ Fixed(RowById(listings', id)) = Fixed(RowById(listings, id))
          /\ RowById(listings', id) # RowById(listings, id) =>
                /\ call'.op = "mark_as_exported"
                /\ id \in call'.ids
                /\ RowById(listings', id).is_exported = 1
                /\ RowById(listings', id).last_updated \in now..now'
    /\ Ids(listings) \ Ids(listings') # {} =>
          /\ call'.op = "clear_all_data"
          /\ listings' = <<>>
    /\ call'.op = "mark_as_exported" => Ids(listings') = Ids(listings)

\* C13: after a listing row is created no store operation changes its
\* street, city, state, zip_code, listing_url, source_website, scraped_at,
\* fingerprint or notes; mark_as_exported changes only is_exported and
\* last_updated of the rows whose ids it is given; a row disappears only
\* through clear_all_data.
C13_RowsImmutable == [][RowsFramed]_vars

\* mark_as_exported has marked the first of two rows, a second after the
\* rows were created, and left the other as it was
C13_Witness ==
    /\ call.op = "mark_as_exported"
    /\ call.ids = {1}
    /\ Len(listings) = 2
    /\ listings[1].is_exported = 1
    /\ listings[1].last_updated > listings[1].scraped_at
    /\ listings[2].is_exported = 0
    /\ listings[2].last_updated = listings[2].scraped_at

\* A step that sets the exported flag of a row
FlagSet ==
    \E id \in Ids(listings) \cap Ids(listings') :
        RowById(listings, id).is_exported = 0 /\ RowById(listings', id).is_exported = 1

\* C14: export never changes the store: after any export_to_csv call every
\* listing's is_exported flag and last_updated value are what they were
\* before it; the flag is set only by an explicit mark_as_exported call.
C14_ExportReadsOnly ==
    /\ [][call'.op = "export_to_csv" =>
             /\ listings' = listings
             /\ listing_seq' = listing_seq
             /\ scrape_history' = scrape_history]_vars
    /\ [][FlagSet => call'.op = "mark_as_exported"]_vars

\* An export has written two listings, which are still not marked exported
C14_Witness ==
    /\ call.op = "export_to_csv"
    /\ call.ids = {1, 2}
    /\ Len(listings) = 2
    /\ \A i \in 1..Len(listings) :
          listings[i].is_exported = 0 /\ listings[i].last_updated = listings[i].scraped_at
    /\ now > listings[2].scraped_at

----------------------------------------------------------------------------
(* Properties of the session log.                                          *)

\* Every row of the session log is in the log after the step, as it was
RowsKept ==
    \A i \in 1..Len(scrape_history) :
        \E j \in 1..Len(scrape_history') : scrape_history'[j] = scrape_history[i]

\* C16: the session log is append-only: once record_scrape_session has
\* written a row, no operation of the store modifies or removes it.
C16_AppendOnly == [][RowsKept]_vars

----------------------------------------------------------------------------
(* Properties of the RateLimiter.                                          *)

\* The configuration of the limiter
LimiterConfig == <<rl.min_delay, rl.max_delay, rl.jitter>>

\* C17: for any two consecutive wait() calls on one RateLimiter the second
\* returns no earlier than delay after the instant recorded by the first,
\* where delay = min_delay without jitter and min_delay <= delay <=
\* max_delay with it; when wait() returns, last_request_time is the return
\* instant, and wait() changes no other state.
C17_WaitSpacing ==
    /\ [](\A k \in 1..Len(rl.returned) :
            /\ rl.min_delay <= rl.delays[k] /\ rl.delays[k] <= rl.max_delay
            /\ ~rl.jitter => rl.delays[k] = rl.min_delay
            /\ k >= 2 => rl.returned[k] >= rl.returned[k - 1] + rl.delays[k])
    /\ [][Len(rl'.returned) > Len(rl.returned) =>
             /\ rl'.last_request_time = now
             /\ rl'.returned[Len(rl'.returned)] = now]_vars
    /\ [][LimiterConfig' = LimiterConfig]_vars

\* Two wait() calls without jitter and with min_delay = 2, the second
\* entered at the instant the first returned, and returning 2 seconds later
C17_Witness ==
    /\ ~rl.jitter
    /\ rl.min_delay = 2
    /\ Len(rl.returned) = 2
    /\ rl.entered[2] = rl.returned[1]
    /\ rl.returned[2] = rl.returned[1] + 2
    /\ rl.last_request_time = rl.returned[2]

\* C18: the first wait() call on a newly created RateLimiter with jitter
\* disabled blocks for at least min_delay before it returns.
C18_FirstWaitBlocks ==
    (~rl.jitter /\ Len(rl.returned) >= 1) =>
        rl.returned[1] >= rl.entered[1] + rl.min_delay

----------------------------------------------------------------------------
(* Properties of the RequestThrottler.                                     *)

\* The requests recorded for a domain less than 60 seconds before t
RequestsInMinute(domain, t) ==
    {i \in 1..Len(th.log) : th.log[i].domain = domain /\ th.log[i].at > t - 60}

\* A call of op returns in this step
ThReturns(op) == th'.res.op = op /\ th'.res # th.res

\* C19: with cap N, should_throttle(domain) returns false while fewer than N
\* requests were recorded for the domain in the trailing 60 seconds and true
\* once N were; once 60 seconds pass with no new request for the domain it
\* returns false again; requests recorded for another domain never change
\* the result.
C19_ShouldThrottle ==
    /\ [][ThReturns("should_throttle") =>
            LET d == th'.res.domain
                mine == {i \in 1..Len(th.log) : th.log[i].domain = d}
            IN  /\ th'.res.throttle =
                     (Cardinality(RequestsInMinute(d, now)) >= th.max_requests_per_minute)
                /\ (\A i \in mine : th.log[i].at + 60 <= now) => ~th'.res.throttle]_vars
    /\ [][\A d \in Domains :
            (th'.res # th.res /\ th'.res.domain # d) =>
                th'.request_times[d] = th.request_times[d]]_vars

\* At cap 1, should_throttle("example.com") has just returned false 60
\* seconds after the one request for that domain, a request for the other
\* domain having been recorded less than 60 seconds ago
C19_Witness ==
    /\ th.max_requests_per_minute = 1
    /\ th.res.op = "should_throttle"
    /\ th.res.domain = "example.com"
    /\ th.res.at = now
    /\ ~th.res.throttle
    /\ Len(th.log) = 2
    /\ th.log[1].domain = "example.com"
    /\ th.log[2].domain = "other.org"
    /\ th.log[1].at + 60 = now
    /\ th.log[2].at + 60 > now
    /\ th.request_times["example.com"] = <<>>
    /\ th.request_times["other.org"] # <<>>

\* The requests of the domain of the last get_wait_time call that lay in
\* the window at that call
InWindowAtWait ==
    {i \in 1..th.gw.logged :
        th.log[i].domain = th.gw.domain /\ th.log[i].at > th.gw.at - 60}

\* No request was recorded for that domain since that call
NoRequestSinceWait ==
    \A i \in 1..Len(th.log) : i > th.gw.logged => th.log[i].domain # th.gw.domain

\* The oldest instant among the requests i of the log
Oldest(is) == CHOOSE t \in {th.log[i].at : i \in is} :
                  \A i \in is : t <= th.log[i].at

\* get_wait_time returns 0 under the cap and oldest + 60 - now, a value in
\* (0, 60], otherwise
WaitTimeValue ==
    ThReturns("get_wait_time") =>
        LET is == RequestsInMinute(th'.res.domain, now)
            w == th'.res.wait
        IN  IF Cardinality(is) < th.max_requests_per_minute
            THEN w = 0
            ELSE w = Oldest(is) + 60 - now /\ 0 < w /\ w <= 60

\* should_throttle is called for the domain of the last get_wait_time call,
\* at least the returned time after it and with no request in between
ThrottleAfterWait ==
    /\ ThReturns("should_throttle")
    /\ th.gw.op = "get_wait_time"
    /\ th'.res.domain = th.gw.domain
    /\ now >= th.gw.at + th.gw.wait
    /\ NoRequestSinceWait

\* C20: get_wait_time(domain) returns 0 when fewer than cap requests of the
\* domain lie in the trailing 60-second window and otherwise the time until
\* the oldest in-window request leaves the window (oldest + 60 - now, a
\* value in (0, 60]); after waiting the returned time with no new request,
\* should_throttle(domain) is false.
C20_WaitTime ==
    /\ [][WaitTimeValue]_vars
    /\ [][ThrottleAfterWait => ~th'.res.throttle]_vars

\* C20 as amended: the value of get_wait_time is as stated; after waiting
\* the returned time with no new request, should_throttle(domain) is false
\* when no more than cap requests of the domain lay in the window at the
\* get_wait_time call.
C20_WaitTimeWithinCap ==
    /\ [][WaitTimeValue]_vars
    /\ [][(ThrottleAfterWait /\
           Cardinality(InWindowAtWait) <= th.max_requests_per_minute)
              => ~th'.res.throttle]_vars

\* At cap 2 with two requests a second apart in the window, get_wait_time
\* returned 59 from the older one, and should_throttle has just returned
\* false 59 seconds later
C20_Witness ==
    /\ th.max_requests_per_minute = 2
    /\ th.gw.op = "get_wait_time"
    /\ th.gw.wait = 59
    /\ Cardinality(InWindowAtWait) = 2
    /\ NoRequestSinceWait
    /\ th.res.op = "should_throttle"
    /\ th.res.domain = th.gw.domain
    /\ th.res.at = th.gw.at + 59
    /\ ~th.res.throttle

----------------------------------------------------------------------------
(* Properties of the export.                                               *)

\* The stored listings an export with the arguments of the last call is to
\* write: those of the source, when one is given, whose flag is the choice
Matching ==
    {i \in 1..Len(listings) :
        /\ (call.source = NULL \/ listings[i].source_website = call.source)
        /\ (listings[i].is_exported = 1) = call.exported_only}

\* C21: export_to_csv(source, exported_only) writes one header row followed
\* by exactly one row per stored listing whose source matches (when a source
\* is given) and whose is_exported flag equals the caller's exported_only
\* choice, with the columns id, street, city, state, zip_code, listing_url,
\* source_website, scraped_at in that order; when no listing matches it
\* writes no file.
C21_ExportRows ==
    call.op = "export_to_csv" =>
        IF Matching = {}
        THEN ~call.file.written
        ELSE /\ call.file.written
             /\ call.file.header = <<"id", "street", "city", "state", "zip_code",
                                     "listing_url", "source_website", "scraped_at">>
             /\ Len(call.file.rows) = Cardinality(Matching)
             /\ \A i \in Matching :
                   LET l == listings[i] IN
                   Cardinality({k \in 1..Len(call.file.rows) :
                       call.file.rows[k] =
                           <<l.id, l.street, l.city, l.state, l.zip_code,
                             l.listing_url, l.source_website, l.scraped_at>>}) = 1

\* An export of the exported listings of FSBO.com has written one of the two
\* stored listings of that source, the other one not being marked
C21_Witness ==
    /\ call.op = "export_to_csv"
    /\ call.source = "FSBO.com"
    /\ call.exported_only
    /\ Len(call.file.rows) = 1
    /\ Cardinality({i \in 1..Len(listings) : listings[i].source_website = "FSBO.com"}) = 2

----------------------------------------------------------------------------
(* Properties of the session history.                                      *)

\* The positions in the log of the sessions a history query with the
\* arguments of the last call is about, and how many of them are recorded
\* after position i
Asked ==
    {i \in 1..Len(scrape_history) :
        call.source = NULL \/ scrape_history[i].source_website = call.source}

Later(i) == Cardinality({j \in Asked : j > i})

\* C22: for any sequence of record_scrape_session calls,
\* get_scrape_history(source, limit) returns the min(limit, count) most
\* recently recorded sessions (only those of the given source when one is
\* given), ordered with the last-recorded session first.
C22_HistoryMostRecentFirst ==
    call.op = "get_scrape_history" =>
        /\ Len(call.history) =
              (IF call.limit < Cardinality(Asked) THEN call.limit ELSE Cardinality(Asked))
        /\ \A i \in Asked :
              Later(i) < Len(call.history) =>
                  call.history[Later(i) + 1] = scrape_history[i].id

----------------------------------------------------------------------------
(* Properties of the paginated discovery.                                  *)

\* The call of get_listing_urls_with_js is in its loop
InPagingLoop == pg.pc \in {"loop", "next"}

\* The call has ended: it returned listing_ids, or an error left it
PagingEnded == pg.pc \in {"returned", "raised"}

\* C23: the paginated discovery loop of FSBOComScraper terminates for every
\* page sequence: it processes at most 20 pages, stops as soon as a page
\* yields no new listing id, and never returns more than the requested
\* maximum number of ids.  (The loop is left for the `finally` clause, after
\* which the call ends, by returning the ids or by raising.)
C23_PagingBounded ==
    /\ [](pg.pages <= 20)
    /\ []((pg.pages > 0 /\ pg.found = 0) => ~InPagingLoop)
    /\ [](Len(pg.listing_ids) <= pg.max_listings_from_url)
    /\ [][InPagingLoop' => (pg.pc \in {"idle", "returned", "raised"} \/ InPagingLoop)]_vars
    /\ (InPagingLoop ~> ~InPagingLoop)
    /\ (pg.pc = "closing" ~> PagingEnded)

\* A discovery asked for more than 20 ids has returned after 20 pages with
\* a new id on each of them
C23_Witness ==
    /\ pg.pc = "returned"
    /\ pg.pages = 20
    /\ pg.found > 0
    /\ pg.max_listings_from_url > Len(pg.listing_ids)
    /\ Len(pg.listing_ids) >= 20

----------------------------------------------------------------------------
(* Properties of the AddressNormalizer.                                    *)

\* The 2-letter codes of the table
StateCodes == {p[2] : p \in STATE_ABBREV}

\* C26: for every recognized full state name of the 50-state + DC table in
\* any letter case, and for every valid 2-letter code in any letter case,
\* normalize_state returns the correct upper-case 2-letter code, and
\* applying normalize_state to that result returns it unchanged.
C26_StateCodes ==
    call.op = "normalize_state" =>
        /\ \A p \in STATE_ABBREV :
              lower(call.arg) = p[1] => call.out = p[2] /\ call.again = p[2]
        /\ \A c \in StateCodes :
              upper(call.arg) = c => call.out = c /\ call.again = c
        /\ (\E p \in STATE_ABBREV : lower(call.arg) = p[1] \/ upper(call.arg) = p[2])
              => Len(call.out) = 2 /\ \A i \in 1..2 : call.out[i] \in Range(UpperAlpha)

\* normalize_state has turned NEW YORK into NY
C26_Witness ==
    /\ call.op = "normalize_state"
    /\ call.arg = <<"N", "E", "W", " ", "Y", "O", "R", "K">>
    /\ call.out = <<"N", "Y">>
    /\ call.again = <<"N", "Y">>
    /\ Cardinality(STATE_ABBREV) = 51
    /\ Cardinality(StateCodes) = 51

\* The abbreviation the directions are to get: one letter for the four
\* main directions, two for the four others
Abbreviation(w) ==
    IF Len(w) <= 5 THEN <<w[1]>>
    ELSE <<w[1], IF w[6] = "e" THEN "E" ELSE "W">>

\* C27: normalize_street replaces every whole-word full directional by its
\* abbreviation: North, South, East, West by the single letters N, S, E, W
\* and Northeast, Northwest, Southeast, Southwest by the two letters NE, NW,
\* SE, SW.
C27_Directionals ==
    call.op = "normalize_street" =>
        \A w \in Directions :
            call.arg = <<"1", " ">> \o w \o <<" ", "A">> =>
                call.out = <<"1", " ">> \o Abbreviation(w) \o <<" ", "A">>

----------------------------------------------------------------------------
(* Properties of the listings the pipeline persists.                       *)

IsZip(z) ==
    \/ Len(z) = 5 /\ \A i \in 1..5 : z[i] \in Range(Digits)
    \/ /\ Len(z) = 10
       /\ z[6] = "-"
       /\ \A i \in (1..5) \cup (7..10) : z[i] \in Range(Digits)

IsLetter(c) == c \in Range(LowerAlpha) \cup Range(UpperAlpha)

\* C24: every listing persisted by the pipeline (a candidate that passed
\* normalize_address and is_valid_address) has a non-empty street and city,
\* a state of exactly two letters, and a zip that is either 5 digits or 5
\* digits, a hyphen and 4 digits.
C24_PersistedWellFormed ==
    \A i \in 1..Len(listings) :
        /\ listings[i].street # <<>>
        /\ listings[i].city # <<>>
        /\ Len(listings[i].state) = 2
        /\ \A k \in 1..Len(listings[i].state) : IsLetter(listings[i].state[k])
        /\ IsZip(listings[i].zip_code)

\* Two raw candidates differ only by letter case or by leading and trailing
\* whitespace in street, city or state
VariantOf(a, b) ==
    /\ a # b
    /\ lower(strip(a.street)) = lower(strip(b.street))
    /\ lower(strip(a.city)) = lower(strip(b.city))
    /\ lower(strip(a.state)) = lower(strip(b.state))
    /\ a.zip_code = b.zip_code

\* The fingerprint of a raw candidate after normalization
NormalizedHash(a) ==
    LET n == normalize_address(a.street, a.city, a.state, a.zip_code)
    IN  generate_hash(n.street, n.city, n.state, n.zip_code)

\* The raw candidate of the call in progress in the next state
RawOf(c) == Addr(c.listing.street, c.listing.city, c.listing.state, c.listing.zip_code)

\* C25: two raw candidates that differ only by letter case or by leading or
\* trailing whitespace in street, city or state get the same fingerprint
\* after normalization, and inserting both stores exactly one row (the
\* second insert is reported as a duplicate).
\* (A step that leaves the clock as it is and ends with an add_listing call
\* is the ingestion of a candidate.)
C25_VariantsCollapse ==
    [][\A a \in IngestPool :
          (/\ call'.op = "add_listing"
           /\ now' = now
           /\ VariantOf(a, RawOf(call'))
           /\ NormalizedHash(a) \in Hashes(listings))
          => /\ NormalizedHash(RawOf(call')) = NormalizedHash(a)
             /\ call'.ret = None
             /\ listings' = listings]_vars

\* The candidate in capitals and with surrounding spaces has been reported
\* as a duplicate of the one stored row
C25_Witness ==
    /\ call.op = "add_listing"
    /\ call.ret = None
    /\ call.listing.city = <<"B", " ">>
    /\ Len(listings) = 1
    /\ listings[1].city = <<"B">>
    /\ listings[1].street = Str_1ASt

\* C28: add_listing reports a duplicate (returns None) only when an already
\* stored listing has the same street, city and state up to letter case and
\* the same zip: two addresses that differ in any of these four fields
\* beyond letter case are always stored as two separate rows.
C28_DuplicateMeansSameAddress ==
    (call.op = "add_listing" /\ call.ret = None) =>
        LET n == normalize_address(call.listing.street, call.listing.city,
                                   call.listing.state, call.listing.zip_code)
        IN  \E i \in 1..Len(listings) :
                /\ lower(listings[i].street) = lower(n.street)
                /\ lower(listings[i].city) = lower(n.city)
                /\ lower(listings[i].state) = lower(n.state)
                /\ listings[i].zip_code = n.zip_code

----------------------------------------------------------------------------
(* Properties of the records of a run.                                     *)

RECURSIVE SumNew(_)
SumNew(tbl) == IF tbl = <<>> THEN 0 ELSE Head(tbl).listings_new + SumNew(Tail(tbl))

\* C29: whenever no run is in progress, and in the absence of clear_all_data
\* and of inserts made outside a run, the number of rows in the listings
\* table equals the sum of listings_new over all session records, for any
\* sequence of completed and failed runs (including runs in which an insert
\* or the session write fails part-way).
C29_RowsMatchSessions ==
    (run.pc \in {"idle", "done", "crashed"} /\ Ids(listings) \subseteq run.stored)
    => Len(listings) = SumNew(scrape_history)

\* The source identifiers on the records the run has produced: its session
\* records and the listings it has persisted
RunIdentifiers ==
    {RunRows[i].source_website : i \in 1..Len(RunRows)}
    \cup {listings[i].source_website : i \in {j \in 1..Len(listings) : listings[j].id \in run.stored}}

\* C30: all records produced by runs of one source carry one and the same
\* source identifier: the source_website of its completed session records,
\* of its failed session records and of the listings it persisted are
\* equal, so filtering history or listings by that identifier returns all
\* of them.
C30_OneSourceIdentifier ==
    RunOver => Cardinality(RunIdentifiers) <= 1

====
